---- MODULE Spec2Model ----
(***************************************************************************)
(* A model of the nwipe wipe engine (src/src/method.rs) as it is driven by *)
(* the command-line supervisor (src/src/main.rs, through run_method) and   *)
(* by a wipe thread of the graphical front end (src/src/gui_app.rs,        *)
(* NwipeApp::start_wiping).                                                *)
(*                                                                         *)
(* One worker wipes one device.  The engine receives an opened handle and  *)
(* a device size; device discovery is outside the engine.  Sizes are       *)
(* counted in bytes with the I/O buffer scaled from 4 MiB down to a few    *)
(* bytes, so that a device spans a handful of buffers.                     *)
(***************************************************************************)
EXTENDS Integers, Sequences, FiniteSets, TLC

(***************************************************************************)
(* Bounds of the model.                                                    *)
(***************************************************************************)
\* largest device size, in bytes
MaxDeviceSize == 3
\* largest value of the rounds option
MaxRounds == 2
\* number of distinct seeds the entropy source can hand out
MaxSeed == 2
\* number of one-second clock ticks that can pass during a wipe
MaxTicks == 1

(***************************************************************************)
(* Program constants.                                                      *)
(***************************************************************************)
\* the I/O buffer size (4 MiB in the source), scaled
NWIPE_KNOB_BUFSIZE == 2
\* the epoch second at which the process starts (any positive value)
EpochStart == 1
\* content of a device byte that was never written
Unwritten == 229

Byte == 0..255

MethodNames == {"ops2", "dod", "gutmann", "random", "zero"}
PrngNames == {"isaac", "mt19937", "twister", "random"}

(***************************************************************************)
(* prng.rs                                                                 *)
(***************************************************************************)
\* init_prng: the names for which a generator exists
init_prng_ok(name) == name \in {"isaac", "mt19937", "twister", "random"}

\* Every generator is seeded from the OS entropy source when it is created
\* and is a deterministic function of that seed afterwards.  PrngOut is the
\* i-th byte (from 0) of the stream of a generator created with this seed.
PrngOut(seed, i) == (seed * 89 + (i + 1) * (2 * seed + 1) * 57) % 256

\* fill_bytes(dest) with len(dest) = n, on a generator that has produced
\* `produced` bytes so far
fill_bytes(seed, produced, n) == [k \in 1..n |-> PrngOut(seed, produced + k - 1)]

(***************************************************************************)
(* method.rs: the pass schedules, as the code of each method runs them     *)
(***************************************************************************)
Pass(drv, pattern, pw, pt, rw) ==
    [drv |-> drv, pattern |-> pattern, pass_working |-> pw, pass_type |-> pt,
     round_working |-> rw]

\* one iteration of the round loop of ops2_wipe
ops2_round(round, verify) ==
    << Pass("write_pattern", <<0>>, 1, "Write", round + 1),
       Pass("write_pattern", <<255>>, 2, "Write", round + 1),
       Pass("write_random", <<>>, 3, "Write", round + 1) >>
    \o (IF verify THEN << Pass("verify_random", <<>>, 4, "Verify", round + 1) >> ELSE << >>)

\* ops2_wipe: round_count is set to 3 and the loop runs over 0..round_count
ops2_passes(verify) ==
    ops2_round(0, verify) \o ops2_round(1, verify) \o ops2_round(2, verify)
    \o << Pass("write_pattern", <<0>>, 3, "FinalBlank", 3) >>

\* dod_wipe (round_working is not assigned: 0 stands for "left alone")
dod_passes(verify) ==
    << Pass("write_pattern", <<0>>, 1, "Write", 0),
       Pass("write_pattern", <<255>>, 2, "Write", 0),
       Pass("write_random", <<>>, 3, "Write", 0) >>
    \o (IF verify THEN << Pass("verify_random", <<>>, 4, "Verify", 0) >> ELSE << >>)

\* the patterns array of gutmann_wipe
gutmann_patterns ==
    << <<85, 85, 85>>, <<170, 170, 170>>, <<146, 73, 36>>, <<73, 36, 146>>,
       <<36, 146, 73>>, <<0, 0, 0>>, <<17, 17, 17>>, <<34, 34, 34>>,
       <<51, 51, 51>>, <<68, 68, 68>>, <<85, 85, 85>>, <<102, 102, 102>>,
       <<119, 119, 119>>, <<136, 136, 136>>, <<153, 153, 153>>,
       <<170, 170, 170>>, <<187, 187, 187>>, <<204, 204, 204>>,
       <<221, 221, 221>>, <<238, 238, 238>>, <<255, 255, 255>>,
       <<146, 73, 36>>, <<73, 36, 146>>, <<36, 146, 73>>,
       <<109, 182, 219>>, <<182, 219, 109>>, <<219, 109, 182>> >>

\* the 27 pattern passes run before the first four random passes
gutmann_passes_patterns_first(verify) ==
    [i \in 1..27 |-> Pass("write_pattern", gutmann_patterns[i], i + 4, "Write", 0)]
    \o [pass \in 1..4 |-> Pass("write_random", <<>>, pass, "Write", 0)]
    \o [pass \in 1..4 |-> Pass("write_random", <<>>, pass + 31, "Write", 0)]
    \o (IF verify THEN << Pass("verify_random", <<>>, 36, "Verify", 0) >> ELSE << >>)

\* gutmann_wipe
gutmann_passes(verify) ==
    [pass \in 1..4 |-> Pass("write_random", <<>>, pass, "Write", 0)]
    \o [i \in 1..27 |-> Pass("write_pattern", gutmann_patterns[i], i + 4, "Write", 0)]
    \o [pass \in 1..4 |-> Pass("write_random", <<>>, pass + 31, "Write", 0)]
    \o (IF verify THEN << Pass("verify_random", <<>>, 36, "Verify", 0) >> ELSE << >>)

random_passes(verify) ==
    << Pass("write_random", <<>>, 1, "Write", 0) >>
    \o (IF verify THEN << Pass("verify_random", <<>>, 2, "Verify", 0) >> ELSE << >>)

zero_passes(verify) ==
    << Pass("write_pattern", <<0>>, 1, "Write", 0) >>
    \o (IF verify THEN << Pass("verify_pattern", <<0>>, 2, "Verify", 0) >> ELSE << >>)

\* the passes the method function named `key` runs, in order
method_passes(key, verify) ==
    CASE key = "ops2" -> ops2_passes(verify)
      [] key = "dod" -> dod_passes(verify)
      [] key = "gutmann" -> gutmann_passes(verify)
      [] key = "random" -> random_passes(verify)
      [] key = "zero" -> zero_passes(verify)
      [] OTHER -> << >>

\* round_count and pass_count as each method function sets them on entry
method_round_count(key) == IF key = "ops2" THEN 3 ELSE 1
method_pass_count(key) ==
    CASE key = "ops2" -> 3
      [] key = "dod" -> 3
      [] key = "gutmann" -> 35
      [] OTHER -> 1


\* no generator exists
NoPrng == [seed |-> 0, produced |-> 0]

(***************************************************************************)
(* State                                                                   *)
(***************************************************************************)
VARIABLES
    entry,             \* "cli": main.rs spawns run_method; "gui": a wipe thread of gui_app.rs
    options,           \* the user's options: method, prng, rounds, verify
    pc,                \* position of the worker
    context,           \* the worker's own NwipeContext (the clone it mutates)
    shared,            \* the context held by the supervisor / the GUI device list
    key,               \* the string the method dispatch matched on
    pass_idx,          \* index of the current pass in the method's pass list
    block,             \* loop variable of the pass driver
    block_count,       \* local of the pass driver
    prng,              \* the generator of the current write_random: seed and bytes produced
    result,            \* the value the method function returned
    TERMINATE_SIGNAL,  \* static mut TERMINATE_SIGNAL
    USER_ABORT,        \* static mut USER_ABORT
    now,               \* the system clock, in seconds
    device,            \* the device's bytes, device[i] is the byte at offset i - 1
    file_pos,          \* the file offset of the device handle
    fd_open,           \* whether the descriptor is still open
    ext_writes,        \* device bytes altered by the environment so far
    last_write,        \* history: offset and length of the last write call
    handle_bytes,      \* history: bytes written through the handle so far
    pass_calls,        \* history: write/read calls issued in the current pass
    pass_bytes,        \* history: bytes written or read in the current pass
    stream,            \* history: the bytes the last write_random pass produced and wrote
    pass_log,          \* history: the passes started so far
    passes_done,       \* history: number of passes that returned Ok
    cancel_seen,       \* history: the worker has read TERMINATE_SIGNAL = true
    io_error,          \* history: a seek, read, write or fsync has failed
    ops_after_cancel,  \* history: the calls on the handle issued after cancel_seen
    rw_after_term,     \* history: read/write calls issued since TERMINATE_SIGNAL was set (0, 1, 2 = more)
    main_pc,           \* position of the supervisor (main.rs, fn main)
    selected_contexts, \* main's selected_contexts: select, wipe_status, result, device_fd
    can_open,          \* environment: whether the open of each selected device succeeds
    nowait,            \* options.nowait || options.autopoweroff
    main_k,            \* index of the context the spawn loop of main is at
    main_i,            \* `i` of main's wait loop, then the index of its join loop
    thread_handles,    \* main's thread_handles: the device each handle's thread wipes
    wipe_threads_started,
    threads,           \* the wipe threads main spawned: state, descriptor, position, result
    fd_table,          \* the process's descriptor table: the device each number refers to, 0 if closed
    fd_closer,         \* history: who closed each descriptor number last
    file_closer,       \* history: who closed the file main opened for each device
    early_close,       \* history: devices whose file was closed before their thread returned
    close_failed,      \* history: a close was called on a number that was not open
    ebadf_cause,       \* history: who had closed the descriptor a thread's call failed on
    return_status,     \* main's return_status
    exit_code,         \* the exit code of the process, -1 while it runs
    unit_pc,           \* position of a run that exercises one function on its own
    unit_in,           \* the inputs of that run
    unit_st,           \* the objects that run works on
    unit_out           \* the outputs that run has collected

vars == << entry, options, pc, context, shared, key, pass_idx,
           block, block_count, prng, result, TERMINATE_SIGNAL, USER_ABORT, now,
           device, file_pos, fd_open, ext_writes, last_write, handle_bytes,
           pass_calls, pass_bytes, stream, pass_log, passes_done, cancel_seen,
           io_error, ops_after_cancel, rw_after_term,
           main_pc, selected_contexts, can_open, nowait, main_k, main_i, thread_handles,
           wipe_threads_started, threads, fd_table, fd_closer, file_closer,
           early_close, close_failed, ebadf_cause, return_status, exit_code,
           unit_pc, unit_in, unit_st, unit_out >>

\* the state of a run that exercises one function on its own
unit_vars == << unit_pc, unit_in, unit_st, unit_out >>

\* the state of the supervisor and of the wipe threads as the supervisor sees them
main_vars == << main_pc, selected_contexts, can_open, nowait, main_k, main_i, thread_handles,
               wipe_threads_started, threads, fd_table, fd_closer, file_closer,
               early_close, close_failed, ebadf_cause, return_status, exit_code >>

\* what no step of the wipe engine changes
config_vars == << entry, options, main_vars, unit_vars >>
flag_vars == << TERMINATE_SIGNAL, USER_ABORT >>
local_vars == << key, pass_idx, block, block_count, prng >>
io_hist_vars == << last_write, handle_bytes, pass_calls, pass_bytes, stream >>
pass_hist_vars == << pass_log, cancel_seen, io_error, ops_after_cancel, rw_after_term >>

(***************************************************************************)
(* context.rs                                                              *)
(***************************************************************************)
\* NwipeContext::default, with the size and handle the device scan supplied.
\* round_percent and pass_percent are kept as the fraction num/den of 100
\* percent.
NwipeContext_default(size) ==
    [ prng |-> "", device_size |-> size, verify |-> TRUE,
      round_count |-> 0, round_working |-> 0,
      round_percent |-> [num |-> 0, den |-> 1],
      pass_percent |-> [num |-> 0, den |-> 1],
      pass_count |-> 0, pass_working |-> 0, pass_type |-> "None",
      eta |-> 0, throughput |-> 0,
      bytes_written |-> 0, bytes_verified |-> 0, bytes_total |-> 0,
      result |-> 0, start_time |-> 0, end_time |-> 0,
      wipe_status |-> 0, sync_status |-> FALSE ]

\* main.rs: the per-device setup before the thread is spawned
main_context(size, prng_name) ==
    [ NwipeContext_default(size) EXCEPT
        !.prng = prng_name, !.start_time = 0, !.end_time = 0, !.wipe_status = -1 ]

(***************************************************************************)
(* Initial state: the worker thread has just been spawned                  *)
(***************************************************************************)
\* the command line: any string for --method and --prng; main.rs copies only
\* options.prng into the contexts, --rounds keeps its default of 1
CliOptions ==
    [ method : MethodNames \cup {"other"},
      prng : PrngNames \cup MethodNames \cup {"other"},
      rounds : {1},
      verify : BOOLEAN ]

\* the choices the settings window of the GUI offers
GuiOptions ==
    [ method : MethodNames,
      prng : {"isaac", "mt19937", "random"},
      rounds : 1..MaxRounds,
      verify : BOOLEAN ]

\* no function is exercised on its own during a wipe
UnitIdle ==
    /\ unit_pc = "idle"
    /\ unit_in = << >>
    /\ unit_st = << >>
    /\ unit_out = << >>

\* the supervisor is left out of the runs of a single wipe
MainIdle ==
    /\ main_pc = "idle"
    /\ selected_contexts = << >>
    /\ can_open = << >>
    /\ nowait = FALSE
    /\ main_k = 0
    /\ main_i = 0
    /\ thread_handles = << >>
    /\ wipe_threads_started = FALSE
    /\ threads = << >>
    /\ fd_table = << >>
    /\ fd_closer = << >>
    /\ file_closer = << >>
    /\ early_close = {}
    /\ close_failed = FALSE
    /\ ebadf_cause = << >>
    /\ return_status = 0
    /\ exit_code = -1

Init ==
    /\ entry \in {"cli", "gui"}
    /\ options \in (IF entry = "cli" THEN CliOptions ELSE GuiOptions)
    /\ \E size \in 0..MaxDeviceSize :
         /\ context = (IF entry = "cli" THEN main_context(size, options.prng)
                                        ELSE NwipeContext_default(size))
         /\ shared = context
         /\ device = [i \in 1..size |-> Unwritten]
    /\ pc = "spawned"
    /\ key = ""
    /\ pass_idx = 0
    /\ block = 0
    /\ block_count = 0
    /\ prng = NoPrng
    /\ result = 0
    /\ TERMINATE_SIGNAL = FALSE
    /\ USER_ABORT = FALSE
    /\ now = EpochStart
    /\ file_pos = 0
    /\ fd_open = TRUE
    /\ ext_writes = 0
    /\ last_write = [off |-> 0, len |-> 0]
    /\ handle_bytes = 0
    /\ pass_calls = 0
    /\ pass_bytes = 0
    /\ stream = << >>
    /\ pass_log = << >>
    /\ passes_done = 0
    /\ cancel_seen = FALSE
    /\ io_error = FALSE
    /\ ops_after_cancel = << >>
    /\ rw_after_term = 0
    /\ MainIdle
    /\ UnitIdle


(***************************************************************************)
(* method.rs: helpers of the pass drivers                                  *)
(***************************************************************************)
passes == method_passes(key, context.verify)
cur == passes[pass_idx]
is_write(drv) == drv \in {"write_pattern", "write_random"}
is_verify(drv) == drv \in {"verify_pattern", "verify_random"}

\* the buffer of NWIPE_KNOB_BUFSIZE bytes filled with the repeating pattern
pattern_buffer(pattern) ==
    [i \in 1..NWIPE_KNOB_BUFSIZE |-> pattern[((i - 1) % Len(pattern)) + 1]]

\* the block count rounded down instead of up
calc_block_count_floor(device_size) == device_size \div NWIPE_KNOB_BUFSIZE

\* "Calculate the number of blocks to write"
calc_block_count(device_size) ==
    (device_size + NWIPE_KNOB_BUFSIZE - 1) \div NWIPE_KNOB_BUFSIZE

\* a block size that is not truncated on the last block
calc_block_size_untruncated(blk, count, device_size) == NWIPE_KNOB_BUFSIZE

\* "Calculate the size of this block"
calc_block_size(blk, count, device_size) ==
    IF blk = count - 1 /\ device_size % NWIPE_KNOB_BUFSIZE # 0
    THEN device_size % NWIPE_KNOB_BUFSIZE
    ELSE NWIPE_KNOB_BUFSIZE

\* i64 division truncates toward zero
TruncDiv(a, b) == IF a >= 0 THEN a \div b ELSE -((-a) \div b)

\* update_eta_throughput: the u64 subtraction underflows when more bytes were
\* moved than device_size * round_count * pass_count
eta_elapsed(ctx, t) == t - ctx.start_time
eta_expected(ctx) == ctx.device_size * ctx.round_count * ctx.pass_count
eta_underflow(ctx, t) == eta_elapsed(ctx, t) # 0 /\ eta_expected(ctx) < ctx.bytes_total

\* without overflow checks the difference wraps modulo 2^64 and the cast to
\* i64 gives the (negative) difference back
update_eta_throughput(ctx, t) ==
    IF eta_elapsed(ctx, t) = 0 THEN ctx
    ELSE LET thr == ctx.bytes_total \div eta_elapsed(ctx, t)
             remaining == eta_expected(ctx) - ctx.bytes_total
         IN [ctx EXCEPT !.throughput = thr,
                        !.eta = IF thr > 0 THEN TruncDiv(remaining, thr) ELSE 0]

\* the state update_eta_throughput leaves behind when the subtraction panics
eta_panic_context(ctx, t) ==
    [ctx EXCEPT !.throughput = ctx.bytes_total \div eta_elapsed(ctx, t)]

\* the counters are set to the size of the block instead of advanced by it
write_progress_assign(ctx, size, blk, count) ==
    [ctx EXCEPT !.bytes_written = size, !.bytes_total = size,
                !.round_percent = [num |-> blk + 1, den |-> count]]

\* the progress update after a write of `size` bytes
write_progress(ctx, size, blk, count) ==
    [ctx EXCEPT !.bytes_written = @ + size, !.bytes_total = @ + size,
                !.round_percent = [num |-> blk + 1, den |-> count]]

\* the verified bytes are counted as written too
verify_progress_as_write(ctx, size, blk, count) ==
    [ctx EXCEPT !.bytes_written = @ + size, !.bytes_verified = @ + size,
                !.bytes_total = @ + size,
                !.round_percent = [num |-> blk + 1, den |-> count]]

\* the progress update after a verified read of `size` bytes
verify_progress(ctx, size, blk, count) ==
    [ctx EXCEPT !.bytes_verified = @ + size, !.bytes_total = @ + size,
                !.round_percent = [num |-> blk + 1, den |-> count]]

\* verify_pattern: the first `size` bytes read equal the expected buffer
pattern_matches(buffer, pattern, size) ==
    \A i \in 1..size : buffer[i] = pattern_buffer(pattern)[i]

\* verify_random: a block is rejected when it is all zeros or all ones
random_block_ok(buffer, size) ==
    /\ \E i \in 1..size : buffer[i] # 0
    /\ \E i \in 1..size : buffer[i] # 255

\* the device after `data` was written at offset `off`
device_after_write(dev, off, data) ==
    [i \in DOMAIN dev |->
        IF i > off /\ i <= off + Len(data) THEN data[i - off] ELSE dev[i]]

\* the bytes a read of `size` bytes at offset `off` returns
device_read(dev, off, size) == [i \in 1..size |-> dev[off + i]]

(***************************************************************************)
(* The worker leaves the method function                                   *)
(***************************************************************************)
\* run_method after the match: end_time and wipe_status of its own clone
run_method_end(ctx, t) == [ctx EXCEPT !.end_time = t, !.wipe_status = 0]

\* the wipe thread of the GUI: "Update the device status" under the lock
wipe_thread_end(dev, code) ==
    [dev EXCEPT !.result = code, !.wipe_status = 0,
                !.round_percent = [num |-> 1, den |-> 1]]

\* The method function returns `code` with the worker's context `ctx`, and
\* the caller finishes.  run_method reads the clock (which may have moved on),
\* finalizes its own clone and returns the code to a closure that drops it;
\* the GUI's closure stores the code in the shared device list.
Finish(ctx, code) ==
    /\ result' = code
    /\ pc' = "done"
    /\ IF entry = "cli"
       THEN \E t \in now..(EpochStart + MaxTicks) :
               /\ now' = t
               /\ context' = run_method_end(ctx, t)
               /\ shared' = shared
       ELSE /\ now' = now
            /\ context' = ctx
            /\ shared' = wipe_thread_end(shared, code)

\* the locals of a driver go out of scope when it returns
DropLocals ==
    /\ block' = 0
    /\ block_count' = 0
    /\ prng' = NoPrng

\* the method function ignores the Err of a driver and goes on to its next pass
DriverErrIgnored(ctx, seen) ==
    /\ DropLocals
    /\ fd_open' = FALSE
    /\ ops_after_cancel' = IF seen THEN Append(ops_after_cancel, "close")
                           ELSE ops_after_cancel
    /\ passes_done' = passes_done
    /\ IF pass_idx < Len(passes)
       THEN /\ pass_idx' = pass_idx + 1
            /\ pc' = "pass"
            /\ result' = result
            /\ context' = ctx
            /\ UNCHANGED << shared, now >>
       ELSE /\ pass_idx' = pass_idx
            /\ Finish(ctx, -1)

\* A driver returns Err: `file` (File::from_raw_fd) is dropped, which closes
\* the descriptor, and the method function returns -1.
DriverErr(ctx, seen) ==
    /\ DropLocals
    /\ fd_open' = FALSE
    /\ ops_after_cancel' = IF seen THEN Append(ops_after_cancel, "close")
                           ELSE ops_after_cancel
    /\ pass_idx' = pass_idx
    /\ passes_done' = passes_done
    /\ Finish(ctx, -1)

\* A driver returns Ok (`file` is forgotten, the descriptor stays open): the
\* method function goes on to its next pass, or returns 0 after the last one.
DriverOk(ctx) ==
    /\ DropLocals
    /\ fd_open' = fd_open
    /\ passes_done' = passes_done + 1
    /\ IF pass_idx < Len(passes)
       THEN /\ pass_idx' = pass_idx + 1
            /\ pc' = "pass"
            /\ result' = result
            /\ context' = ctx
            /\ UNCHANGED << shared, now >>
       ELSE /\ pass_idx' = pass_idx
            /\ Finish(ctx, 0)

\* the generator after the fill_bytes of this block, if the driver has one
NextPrng ==
    IF cur.drv = "write_random"
    THEN [prng EXCEPT !.produced = @ + NWIPE_KNOB_BUFSIZE]
    ELSE prng

\* The call of update_eta_throughput that ends an iteration of the block loop.
\* When its u64 subtraction underflows, a build with overflow checks (the
\* debug profile) panics: the thread unwinds and drops `file`; a build
\* without them (the release profile) wraps and goes on.
ProgressUpdate(ctx) ==
    \/ /\ context' = update_eta_throughput(ctx, now)
       /\ fd_open' = fd_open
       /\ pc' = "loop"
       /\ block' = block + 1
       /\ block_count' = block_count
       /\ prng' = NextPrng
    \/ /\ eta_underflow(ctx, now)
       /\ context' = eta_panic_context(ctx, now)
       /\ fd_open' = FALSE
       /\ pc' = "panicked"
       /\ DropLocals

\* history counters tell none, one and more than one apart
Counted(n) == IF n < 2 THEN n + 1 ELSE n

CountRw == rw_after_term' = IF TERMINATE_SIGNAL THEN Counted(rw_after_term) ELSE rw_after_term

(***************************************************************************)
(* Worker: entry                                                           *)
(***************************************************************************)
\* run_method, up to the match on ctx.prng
run_method_begin ==
    /\ pc = "spawned" /\ entry = "cli"
    /\ context' = [context EXCEPT !.start_time = now, !.wipe_status = 1]
    /\ key' = context.prng
    /\ pc' = "dispatch"
    /\ UNCHANGED << config_vars, flag_vars, io_hist_vars, pass_hist_vars, shared,
                    pass_idx, block, block_count, prng, result, now, device,
                    file_pos, fd_open, ext_writes, passes_done >>

\* the closure of a wipe thread of NwipeApp::start_wiping, up to the match on method
wipe_thread_begin ==
    /\ pc = "spawned" /\ entry = "gui"
    /\ context' = [context EXCEPT !.prng = options.prng,
                                  !.round_count = options.rounds,
                                  !.verify = options.verify]
    /\ key' = options.method
    /\ pc' = "dispatch"
    /\ UNCHANGED << config_vars, flag_vars, io_hist_vars, pass_hist_vars, shared,
                    pass_idx, block, block_count, prng, result, now, device,
                    file_pos, fd_open, ext_writes, passes_done >>

\* the match arm taken and the first statements of the method function
dispatch_method ==
    /\ pc = "dispatch" /\ key \in MethodNames
    /\ context' = [context EXCEPT !.round_count = method_round_count(key),
                                  !.pass_count = method_pass_count(key)]
    /\ pass_idx' = 1
    /\ pc' = "pass"
    /\ UNCHANGED << config_vars, flag_vars, io_hist_vars, pass_hist_vars, shared,
                    key, block, block_count, prng, result, now, device,
                    file_pos, fd_open, ext_writes, passes_done >>

\* the default arm: "Unknown wipe method"
dispatch_unknown ==
    /\ pc = "dispatch" /\ key \notin MethodNames
    /\ Finish(context, -1)
    /\ UNCHANGED << config_vars, flag_vars, io_hist_vars, pass_hist_vars, key,
                    pass_idx, block, block_count, prng, device, file_pos,
                    fd_open, ext_writes, passes_done >>

(***************************************************************************)
(* Worker: a pass driver (write_pattern, write_random, verify_pattern,     *)
(* verify_random), entered from the method function                        *)
(***************************************************************************)
\* the assignments of the method function before it calls the driver
pass_context(ctx, p) ==
    [ctx EXCEPT !.pass_working = p.pass_working,
                !.pass_type = p.pass_type,
                !.round_working = IF p.round_working = 0 THEN @ ELSE p.round_working]

\* what every entry into a driver does
BeginPass ==
    /\ pc = "pass"
    /\ pass_log' = Append(pass_log, [drv |-> cur.drv, pattern |-> cur.pattern,
                                     pass_type |-> cur.pass_type])
    /\ pass_calls' = 0
    /\ pass_bytes' = 0
    /\ UNCHANGED << config_vars, flag_vars, key, device, ext_writes, last_write,
                    handle_bytes, cancel_seen, rw_after_term >>

\* seek to the start succeeds; buffers and the generator are set up
begin_pass ==
    /\ BeginPass
    /\ cur.drv = "write_random" => init_prng_ok(context.prng)
    /\ context' = pass_context(context, cur)
    /\ file_pos' = 0
    /\ IF cur.drv = "write_random"
       THEN \E seed \in 1..MaxSeed : prng' = [seed |-> seed, produced |-> 0]
       ELSE prng' = prng
    /\ stream' = IF is_write(cur.drv) THEN << >> ELSE stream
    /\ block_count' = calc_block_count(context.device_size)
    /\ block' = 0
    /\ pc' = "loop"
    /\ UNCHANGED << shared, pass_idx, result, now, fd_open, passes_done, io_error,
                    ops_after_cancel >>

\* file.seek(SeekFrom::Start(0))? fails
begin_pass_seek_fail ==
    /\ BeginPass
    /\ DriverErr(pass_context(context, cur), cancel_seen)
    /\ io_error' = TRUE
    /\ UNCHANGED << file_pos, stream >>

\* prng::init_prng(&context.prng)? fails: "Unknown PRNG"
begin_pass_unknown_prng ==
    /\ BeginPass
    /\ cur.drv = "write_random" /\ ~init_prng_ok(context.prng)
    /\ file_pos' = 0
    /\ DriverErr(pass_context(context, cur), cancel_seen)
    /\ UNCHANGED << stream, io_error >>

\* "Check if we should abort": the values `unsafe { crate::TERMINATE_SIGNAL }`
\* can yield.  The flag is a `static mut` bool that another thread writes
\* without synchronization: once it is set a read may return true, or still
\* false where the build keeps the value of an earlier read.
terminate_read == IF TERMINATE_SIGNAL THEN {TRUE, FALSE} ELSE {FALSE}

\* top of the block loop: TERMINATE_SIGNAL is set, Err(Interrupted)
loop_interrupted ==
    /\ pc = "loop" /\ block < block_count
    /\ TRUE \in terminate_read
    /\ cancel_seen' = TRUE
    /\ DriverErr(context, TRUE)
    /\ UNCHANGED << config_vars, flag_vars, io_hist_vars, key, device, file_pos,
                    ext_writes, pass_log, io_error, rw_after_term >>

\* top of the block loop: not interrupted, go on to the I/O of this block
loop_continue ==
    /\ pc = "loop" /\ block < block_count
    /\ FALSE \in terminate_read
    /\ pc' = "io"
    /\ UNCHANGED << config_vars, flag_vars, io_hist_vars, pass_hist_vars, context,
                    shared, key, pass_idx, block, block_count, prng, result, now,
                    device, file_pos, fd_open, ext_writes, passes_done >>

\* a write driver leaves the loop: context.sync_status = true
loop_exit_write ==
    /\ pc = "loop" /\ block = block_count
    /\ is_write(cur.drv)
    /\ context' = [context EXCEPT !.sync_status = TRUE]
    /\ pc' = "fsync"
    /\ UNCHANGED << config_vars, flag_vars, io_hist_vars, pass_hist_vars, shared,
                    key, pass_idx, block, block_count, prng, result, now, device,
                    file_pos, fd_open, ext_writes, passes_done >>

\* a verify driver leaves the loop and returns Ok
loop_exit_verify ==
    /\ pc = "loop" /\ block = block_count
    /\ is_verify(cur.drv)
    /\ DriverOk(context)
    /\ UNCHANGED << config_vars, flag_vars, io_hist_vars, pass_hist_vars, key,
                    device, file_pos, ext_writes >>

\* the bytes the write drivers put in the buffer for this block
write_buffer ==
    IF cur.drv = "write_pattern" THEN pattern_buffer(cur.pattern)
    ELSE fill_bytes(prng.seed, prng.produced, NWIPE_KNOB_BUFSIZE)

\* file.write_all(&buffer[0..size]) succeeds, then the progress update
io_write ==
    /\ pc = "io" /\ is_write(cur.drv)
    /\ LET size == calc_block_size(block, block_count, context.device_size)
           data == SubSeq(write_buffer, 1, size)
       IN /\ device' = device_after_write(device, file_pos, data)
          /\ last_write' = [off |-> file_pos, len |-> size]
          /\ file_pos' = file_pos + size
          /\ handle_bytes' = handle_bytes + size
          /\ pass_calls' = pass_calls + 1
          /\ pass_bytes' = pass_bytes + size
          /\ stream' = IF cur.drv = "write_random" THEN stream \o data ELSE stream
          /\ ProgressUpdate(write_progress(context, size, block, block_count))
    /\ CountRw
    /\ UNCHANGED << config_vars, flag_vars, shared, key, pass_idx, result, now,
                    ext_writes, pass_log, passes_done, cancel_seen, io_error,
                    ops_after_cancel >>

\* file.write_all fails after `done` bytes of the block reached the device
io_write_fail ==
    /\ pc = "io" /\ is_write(cur.drv)
    /\ LET size == calc_block_size(block, block_count, context.device_size)
       IN \E done \in 0..(size - 1) :
            LET data == SubSeq(write_buffer, 1, done)
            IN /\ device' = device_after_write(device, file_pos, data)
               /\ last_write' = [off |-> file_pos, len |-> size]
               /\ file_pos' = file_pos + done
               /\ handle_bytes' = handle_bytes + done
               /\ pass_calls' = pass_calls + 1
               /\ pass_bytes' = pass_bytes + done
               /\ stream' = IF cur.drv = "write_random" THEN stream \o data ELSE stream
    /\ CountRw
    /\ DriverErr(context, cancel_seen)
    /\ io_error' = TRUE
    /\ UNCHANGED << config_vars, flag_vars, key, ext_writes, pass_log, cancel_seen >>

\* whether the block just read passes the driver's comparison
block_verifies(buffer, size) ==
    IF cur.drv = "verify_pattern" THEN pattern_matches(buffer, cur.pattern, size)
    ELSE random_block_ok(buffer, size)

\* file.read_exact succeeds and the block passes, then the progress update
io_read ==
    /\ pc = "io" /\ is_verify(cur.drv)
    /\ LET size == calc_block_size(block, block_count, context.device_size)
           buffer == device_read(device, file_pos, size)
       IN /\ block_verifies(buffer, size)
          /\ file_pos' = file_pos + size
          /\ pass_calls' = pass_calls + 1
          /\ pass_bytes' = pass_bytes + size
          /\ ProgressUpdate(verify_progress(context, size, block, block_count))
    /\ CountRw
    /\ UNCHANGED << config_vars, flag_vars, shared, key, pass_idx, result, now,
                    device, ext_writes, last_write, handle_bytes, stream,
                    pass_log, passes_done, cancel_seen, io_error,
                    ops_after_cancel >>

\* file.read_exact succeeds and the block is rejected: Err(InvalidData)
io_read_mismatch ==
    /\ pc = "io" /\ is_verify(cur.drv)
    /\ LET size == calc_block_size(block, block_count, context.device_size)
           buffer == device_read(device, file_pos, size)
       IN /\ ~block_verifies(buffer, size)
          /\ file_pos' = file_pos + size
          /\ pass_bytes' = pass_bytes + size
    /\ pass_calls' = pass_calls + 1
    /\ CountRw
    /\ DriverErr(context, cancel_seen)
    /\ UNCHANGED << config_vars, flag_vars, key, device, ext_writes, last_write,
                    handle_bytes, stream, pass_log, cancel_seen, io_error >>

\* file.read_exact fails
io_read_fail ==
    /\ pc = "io" /\ is_verify(cur.drv)
    /\ pass_calls' = pass_calls + 1
    /\ CountRw
    /\ DriverErr(context, cancel_seen)
    /\ io_error' = TRUE
    /\ UNCHANGED << config_vars, flag_vars, key, device, file_pos, ext_writes,
                    last_write, handle_bytes, pass_bytes, stream, pass_log,
                    cancel_seen >>

\* file.sync_all() succeeds: sync_status = false, forget(file), Ok
fsync_ok ==
    /\ pc = "fsync"
    /\ ops_after_cancel' = IF cancel_seen THEN Append(ops_after_cancel, "fsync")
                           ELSE ops_after_cancel
    /\ DriverOk([context EXCEPT !.sync_status = FALSE])
    /\ UNCHANGED << config_vars, flag_vars, io_hist_vars, key, device, file_pos,
                    ext_writes, pass_log, cancel_seen, io_error, rw_after_term >>

\* file.sync_all()? fails: Err with sync_status left true
fsync_fail ==
    /\ pc = "fsync"
    /\ DriverErr(context, cancel_seen)
    /\ io_error' = TRUE
    /\ UNCHANGED << config_vars, flag_vars, io_hist_vars, key, device, file_pos,
                    ext_writes, pass_log, cancel_seen, rw_after_term >>

(***************************************************************************)
(* Environment                                                             *)
(***************************************************************************)
\* main.rs signal thread on SIGHUP/SIGINT/SIGQUIT/SIGTERM, or the GUI's stop
signal_terminate ==
    /\ ~TERMINATE_SIGNAL
    /\ pc \notin {"done", "panicked"}
    /\ TERMINATE_SIGNAL' = TRUE
    /\ USER_ABORT' = TRUE
    /\ UNCHANGED << config_vars, io_hist_vars, pass_hist_vars, local_vars, pc,
                    context, shared, result, now, device, file_pos, fd_open,
                    ext_writes, passes_done >>

\* A second passes on the system clock.  The worker reads the clock after the
\* I/O of a block (update_eta_throughput) and when run_method ends (Finish),
\* so the seconds that pass between two reads are taken during the I/O.
tick ==
    /\ pc = "io"
    /\ now < EpochStart + MaxTicks
    /\ now' = now + 1
    /\ UNCHANGED << config_vars, flag_vars, io_hist_vars, pass_hist_vars,
                    local_vars, pc, context, shared, result, device, file_pos,
                    fd_open, ext_writes, passes_done >>

\* values an externally altered byte can take
ExternalBytes == {0, 90, 255}

\* something other than the engine alters one byte of the device, once,
\* between a write pass and the verify pass that follows it
external_write ==
    /\ pc = "pass" /\ pass_idx > 1 /\ is_verify(cur.drv)
    /\ ext_writes = 0
    /\ \E i \in DOMAIN device : \E b \in ExternalBytes \ {device[i]} :
         device' = [device EXCEPT ![i] = b]
    /\ ext_writes' = ext_writes + 1
    /\ UNCHANGED << config_vars, flag_vars, io_hist_vars, pass_hist_vars,
                    local_vars, pc, context, shared, result, now, file_pos,
                    fd_open, passes_done >>

Next ==
    \/ run_method_begin
    \/ wipe_thread_begin
    \/ dispatch_method
    \/ dispatch_unknown
    \/ begin_pass
    \/ begin_pass_seek_fail
    \/ begin_pass_unknown_prng
    \/ loop_interrupted
    \/ loop_continue
    \/ loop_exit_write
    \/ loop_exit_verify
    \/ io_write
    \/ io_write_fail
    \/ io_read
    \/ io_read_mismatch
    \/ io_read_fail
    \/ fsync_ok
    \/ fsync_fail
    \/ signal_terminate
    \/ tick
    \/ external_write

Spec == Init /\ [][Next]_vars

(***************************************************************************)
(* main.rs: the supervisor.  It opens every selected device, spawns one    *)
(* wipe thread per opened device, waits, joins the threads, closes the     *)
(* descriptors and aggregates the results.  A wipe thread is followed here *)
(* through its calls on the descriptor only: per pass one seek, the block  *)
(* loop of a device of one block, and the fsync of a write pass.           *)
(* The status thread of the TUI is left out (--nogui); its quit key sets   *)
(* the same two flags as a signal.                                         *)
(***************************************************************************)
\* largest number of selected devices
MaxDevices == 2

\* who closed a descriptor: nobody, the drop of main's `file` for a context,
\* main's close after the join of a handle, or the wipe thread of a device
Nobody == << "nobody", 0 >>
ByDrop(d) == << "main_drop", d >>
ByClose(j) == << "main_close", j >>
ByThread(d) == << "thread", d >>

\* a context as the device scan leaves it, selected
selected_context == [ select |-> "True", wipe_status |-> 0, result |-> 0, device_fd |-> -1 ]

\* no thread was spawned for the device
NoThread == [ state |-> "none", fd |-> -1, key |-> "", pass |-> 0, op |-> "", result |-> 0 ]

\* the values of --prng the supervisor is followed for: the default, which
\* names no method, and three method names that run_method dispatches on
MainPrngs == {"isaac", "random", "zero", "dod"}

\* of the options only --prng reaches the contexts, the others keep their
\* defaults
MainOptions ==
    { o \in CliOptions : o.method = "ops2" /\ o.verify /\ o.prng \in MainPrngs }

\* the worker of a single-wipe run is left out of the runs of the supervisor
EngineIdle ==
    /\ pc = "idle"
    /\ context = NwipeContext_default(0)
    /\ shared = NwipeContext_default(0)
    /\ device = << >>
    /\ key = ""
    /\ pass_idx = 0
    /\ block = 0
    /\ block_count = 0
    /\ prng = NoPrng
    /\ result = 0
    /\ now = EpochStart
    /\ file_pos = 0
    /\ fd_open = FALSE
    /\ ext_writes = 0
    /\ last_write = [off |-> 0, len |-> 0]
    /\ handle_bytes = 0
    /\ pass_calls = 0
    /\ pass_bytes = 0
    /\ stream = << >>
    /\ pass_log = << >>
    /\ passes_done = 0
    /\ cancel_seen = FALSE
    /\ io_error = FALSE
    /\ ops_after_cancel = << >>
    /\ rw_after_term = 0

engine_vars == << pc, context, shared, device, local_vars, result, now, file_pos,
                 fd_open, ext_writes, io_hist_vars, pass_hist_vars, passes_done,
                 unit_vars >>

\* main has collected the selected contexts and is about to start the threads
MainInit ==
    /\ entry = "cli"
    /\ options \in MainOptions
    /\ EngineIdle
    /\ UnitIdle
    /\ TERMINATE_SIGNAL = FALSE
    /\ USER_ABORT = FALSE
    /\ nowait \in BOOLEAN
    /\ \E n \in 0..MaxDevices :
         /\ selected_contexts = [d \in 1..n |-> selected_context]
         /\ can_open \in [1..n -> BOOLEAN]
         /\ threads = [d \in 1..n |-> NoThread]
         /\ fd_table = [x \in 1..n |-> 0]
         /\ fd_closer = [x \in 1..n |-> Nobody]
         /\ file_closer = [d \in 1..n |-> Nobody]
         /\ ebadf_cause = [d \in 1..n |-> Nobody]
    /\ main_pc = "start"
    /\ main_k = 1
    /\ main_i = 0
    /\ thread_handles = << >>
    /\ wipe_threads_started = FALSE
    /\ early_close = {}
    /\ close_failed = FALSE
    /\ return_status = 0
    /\ exit_code = -1

nwipe_selected == Len(selected_contexts)

\* the quit key of gui_select was pressed: USER_ABORT was written by the thread
\* that reads it
QuitKey == unit_pc = "selection" /\ unit_st.quit

\* the values `unsafe { USER_ABORT }` can yield (see terminate_read); the
\* supervisor reads its own write as written
user_abort_read ==
    IF ~USER_ABORT THEN {FALSE}
    ELSE IF QuitKey THEN {TRUE}
    ELSE {TRUE, FALSE}

\* open() returns the lowest descriptor number that is not in use
lowest_free_fd ==
    CHOOSE n \in DOMAIN fd_table :
        fd_table[n] = 0 /\ \A m \in 1..(n - 1) : fd_table[m] # 0

\* close(n), called by `who`; `self` is the device of the calling thread, 0 for main
CloseFd(n, who, self) ==
    IF n \in DOMAIN fd_table /\ fd_table[n] # 0
    THEN LET d == fd_table[n]
         IN /\ fd_table' = [fd_table EXCEPT ![n] = 0]
            /\ fd_closer' = [fd_closer EXCEPT ![n] = who]
            /\ file_closer' = [file_closer EXCEPT ![d] = who]
            /\ early_close' = IF d # self /\ threads[d].state # "returned"
                              THEN early_close \cup {d} ELSE early_close
            /\ close_failed' = close_failed
    ELSE /\ close_failed' = TRUE
         /\ UNCHANGED << fd_table, fd_closer, file_closer, early_close >>

\* where the spawn loop goes after the context at index idx
spawn_loop_next(idx) ==
    /\ main_k' = idx + 1
    /\ main_pc' = IF idx + 1 > nwipe_selected THEN "wait" ELSE "open"

\* the loop is left at the first device that cannot be opened
after_open_failure_break(idx) ==
    /\ main_k' = nwipe_selected + 1
    /\ main_pc' = "wait"

\* `continue` in the Err arm of the open
after_open_failure(idx) == spawn_loop_next(idx)

\* `if !unsafe { USER_ABORT }`: the flag is read as set, no thread is started
main_start_aborted ==
    /\ main_pc = "start"
    /\ TRUE \in user_abort_read
    /\ main_pc' = "wait"
    /\ UNCHANGED << entry, options, flag_vars, engine_vars, selected_contexts,
                    can_open, nowait, main_k, main_i, thread_handles,
                    wipe_threads_started, threads, fd_table, fd_closer,
                    file_closer, early_close, close_failed, ebadf_cause,
                    return_status, exit_code >>

\* the flag is read as clear: enter the spawn loop
main_start ==
    /\ main_pc = "start"
    /\ FALSE \in user_abort_read
    /\ main_pc' = IF nwipe_selected = 0 THEN "wait" ELSE "open"
    /\ UNCHANGED << entry, options, flag_vars, engine_vars, selected_contexts,
                    can_open, nowait, main_k, main_i, thread_handles,
                    wipe_threads_started, threads, fd_table, fd_closer,
                    file_closer, early_close, close_failed, ebadf_cause,
                    return_status, exit_code >>

\* one iteration of the spawn loop, the open succeeds: the descriptor number
\* goes into the context, a thread is spawned with a clone of the context, and
\* main still holds `file`
main_open_ok ==
    /\ main_pc = "open" /\ can_open[main_k]
    /\ LET n == lowest_free_fd
       IN /\ fd_table' = [fd_table EXCEPT ![n] = main_k]
          /\ selected_contexts' = [selected_contexts EXCEPT
                                     ![main_k].wipe_status = -1,
                                     ![main_k].device_fd = n]
          /\ threads' = [threads EXCEPT ![main_k] =
                           [ state |-> "spawned", fd |-> n, key |-> options.prng,
                             pass |-> 0, op |-> "", result |-> 0 ]]
    /\ thread_handles' = Append(thread_handles, main_k)
    /\ wipe_threads_started' = TRUE
    /\ main_pc' = "drop"
    /\ UNCHANGED << entry, options, flag_vars, engine_vars, can_open, nowait,
                    main_k, main_i, fd_closer, file_closer, early_close,
                    close_failed, ebadf_cause, return_status, exit_code >>

\* the end of the Ok arm: `file` goes out of scope, which closes its descriptor
main_drop_file ==
    /\ main_pc = "drop"
    /\ CloseFd(selected_contexts[main_k].device_fd, ByDrop(main_k), 0)
    /\ spawn_loop_next(main_k)
    /\ UNCHANGED << entry, options, flag_vars, engine_vars, selected_contexts,
                    can_open, nowait, main_i, thread_handles,
                    wipe_threads_started, threads, ebadf_cause, return_status,
                    exit_code >>

\* one iteration of the spawn loop, the open fails
main_open_fail ==
    /\ main_pc = "open" /\ ~can_open[main_k]
    /\ selected_contexts' = [selected_contexts EXCEPT
                               ![main_k].wipe_status = -1,
                               ![main_k].select = "Disabled"]
    /\ after_open_failure(main_k)
    /\ UNCHANGED << entry, options, flag_vars, engine_vars, can_open, nowait,
                    main_i, thread_handles, wipe_threads_started, threads,
                    fd_table, fd_closer, file_closer, early_close, close_failed,
                    ebadf_cause, return_status, exit_code >>

\* the wait loop: all contexts have been seen completed, or the flag is read
\* as set
main_wait_exit ==
    /\ main_pc = "wait"
    /\ main_i >= nwipe_selected \/ TRUE \in terminate_read
    /\ main_pc' = "hold"
    /\ UNCHANGED << entry, options, flag_vars, engine_vars, selected_contexts,
                    can_open, nowait, main_k, main_i, thread_handles,
                    wipe_threads_started, threads, fd_table, fd_closer,
                    file_closer, early_close, close_failed, ebadf_cause,
                    return_status, exit_code >>

\* the wait loop: the context at i is completed, go on to the next
main_wait_next ==
    /\ main_pc = "wait"
    /\ main_i < nwipe_selected /\ FALSE \in terminate_read
    /\ selected_contexts[main_i + 1].wipe_status = 0
    /\ main_i' = main_i + 1
    /\ UNCHANGED << entry, options, flag_vars, engine_vars, main_pc,
                    selected_contexts, can_open, nowait, main_k, thread_handles,
                    wipe_threads_started, threads, fd_table, fd_closer,
                    file_closer, early_close, close_failed, ebadf_cause,
                    return_status, exit_code >>

\* the wait loop: the context at i is not completed, start over after a sleep
main_wait_restart ==
    /\ main_pc = "wait"
    /\ main_i < nwipe_selected /\ FALSE \in terminate_read
    /\ selected_contexts[main_i + 1].wipe_status # 0
    /\ main_i' = 0
    /\ main_pc' = "sleep"
    /\ UNCHANGED << entry, options, flag_vars, engine_vars, selected_contexts,
                    can_open, nowait, main_k, thread_handles,
                    wipe_threads_started, threads, fd_table, fd_closer,
                    file_closer, early_close, close_failed, ebadf_cause,
                    return_status, exit_code >>

\* thread::sleep(Duration::from_secs(1)) of the wait loop is over
main_sleep ==
    /\ main_pc = "sleep"
    /\ main_pc' = "wait"
    /\ UNCHANGED << entry, options, flag_vars, engine_vars, selected_contexts,
                    can_open, nowait, main_k, main_i, thread_handles,
                    wipe_threads_started, threads, fd_table, fd_closer,
                    file_closer, early_close, close_failed, ebadf_cause,
                    return_status, exit_code >>

\* "Wait for user input": skipped with nowait/autopoweroff or when the flag is
\* read as set, and left when the flag is read as set
main_hold_exit ==
    /\ \/ main_pc = "hold" /\ (nowait \/ TRUE \in terminate_read)
       \/ main_pc = "hold_loop" /\ TRUE \in terminate_read
    /\ main_pc' = "join"
    /\ main_i' = 1
    /\ UNCHANGED << entry, options, flag_vars, engine_vars, selected_contexts,
                    can_open, nowait, main_k, thread_handles,
                    wipe_threads_started, threads, fd_table, fd_closer,
                    file_closer, early_close, close_failed, ebadf_cause,
                    return_status, exit_code >>

\* "Wait for user input": the flag is read as clear, sleep a second
main_hold_poll ==
    /\ \/ main_pc = "hold" /\ ~nowait
       \/ main_pc = "hold_loop"
    /\ FALSE \in terminate_read
    /\ main_pc' = "hold_sleep"
    /\ UNCHANGED << entry, options, flag_vars, engine_vars, selected_contexts,
                    can_open, nowait, main_k, main_i, thread_handles,
                    wipe_threads_started, threads, fd_table, fd_closer,
                    file_closer, early_close, close_failed, ebadf_cause,
                    return_status, exit_code >>

\* the sleep of the "Wait for user input" loop is over
main_hold_sleep ==
    /\ main_pc = "hold_sleep"
    /\ main_pc' = "hold_loop"
    /\ UNCHANGED << entry, options, flag_vars, engine_vars, selected_contexts,
                    can_open, nowait, main_k, main_i, thread_handles,
                    wipe_threads_started, threads, fd_table, fd_closer,
                    file_closer, early_close, close_failed, ebadf_cause,
                    return_status, exit_code >>

\* "Wait for wipe threads to finish": join the handle at index i of
\* thread_handles, then close(selected_contexts[i].device_fd)
main_join_close ==
    /\ main_pc = "join" /\ main_i <= Len(thread_handles)
    /\ threads[thread_handles[main_i]].state = "returned"
    /\ CloseFd(selected_contexts[main_i].device_fd, ByClose(main_i), 0)
    /\ main_i' = main_i + 1
    /\ UNCHANGED << entry, options, flag_vars, engine_vars, main_pc,
                    selected_contexts, can_open, nowait, main_k, thread_handles,
                    wipe_threads_started, threads, ebadf_cause, return_status,
                    exit_code >>

\* all handles are joined
main_join_done ==
    /\ main_pc = "join" /\ main_i > Len(thread_handles)
    /\ main_pc' = "aggregate"
    /\ UNCHANGED << entry, options, flag_vars, engine_vars, selected_contexts,
                    can_open, nowait, main_k, main_i, thread_handles,
                    wipe_threads_started, threads, fd_table, fd_closer,
                    file_closer, early_close, close_failed, ebadf_cause,
                    return_status, exit_code >>

\* the fatal loop runs first and the non-fatal loop overrides it
return_status_fatal_first(contexts) ==
    LET fatal == IF \E d \in DOMAIN contexts : contexts[d].result < 0 THEN -1 ELSE 0
    IN IF \E d \in DOMAIN contexts : contexts[d].result > 0 THEN 1 ELSE fatal

\* "Check for non-fatal errors", then "Check for fatal errors"
return_status_of(contexts) ==
    LET non_fatal == IF \E d \in DOMAIN contexts : contexts[d].result > 0 THEN 1 ELSE 0
    IN IF \E d \in DOMAIN contexts : contexts[d].result < 0 THEN -1 ELSE non_fatal

\* "Check for errors and set return status"
main_aggregate ==
    /\ main_pc = "aggregate"
    /\ IF ~wipe_threads_started
       THEN /\ selected_contexts' = [d \in DOMAIN selected_contexts |->
                                       [selected_contexts[d] EXCEPT !.result = 0]]
            /\ return_status' = 0
       ELSE /\ selected_contexts' = selected_contexts
            /\ return_status' = return_status_of(selected_contexts)
    /\ main_pc' = "summary"
    /\ UNCHANGED << entry, options, flag_vars, engine_vars, can_open, nowait,
                    main_k, main_i, thread_handles, wipe_threads_started,
                    threads, fd_table, fd_closer, file_closer, early_close,
                    close_failed, ebadf_cause, exit_code >>

\* the summary is logged and main returns Ok(())
main_exit ==
    /\ main_pc = "summary"
    /\ exit_code' = 0
    /\ main_pc' = "exited"
    /\ UNCHANGED << entry, options, flag_vars, engine_vars, selected_contexts,
                    can_open, nowait, main_k, main_i, thread_handles,
                    wipe_threads_started, threads, fd_table, fd_closer,
                    file_closer, early_close, close_failed, ebadf_cause,
                    return_status >>

\* the signal thread receives SIGHUP, SIGINT, SIGQUIT or SIGTERM
main_signal ==
    /\ main_pc # "exited"
    /\ ~TERMINATE_SIGNAL
    /\ TERMINATE_SIGNAL' = TRUE
    /\ USER_ABORT' = TRUE
    /\ UNCHANGED << entry, options, engine_vars, main_vars >>

(***************************************************************************)
(* The wipe thread of device d, as the supervisor and the descriptor table *)
(* see it                                                                  *)
(***************************************************************************)
\* the passes run_method runs for the thread's context (verify is left true)
thread_passes(t) == method_passes(t.key, NwipeContext_default(0).verify)

\* the thread after a call on the descriptor succeeded
thread_advance(t) ==
    LET p == thread_passes(t)[t.pass]
    IN IF t.op = "seek" THEN [t EXCEPT !.op = "rw"]
       ELSE IF t.op = "rw" /\ is_write(p.drv) THEN [t EXCEPT !.op = "sync"]
       ELSE IF t.pass < Len(thread_passes(t))
            THEN [t EXCEPT !.pass = @ + 1, !.op = "seek"]
            ELSE [t EXCEPT !.state = "returned", !.result = 0]

\* A driver returns Err: its `file` is dropped, which closes the descriptor
\* number of the context, and run_method returns -1 to a closure that drops it.
thread_err(d) ==
    /\ CloseFd(threads[d].fd, ByThread(d), d)
    /\ threads' = [threads EXCEPT ![d].state = "returned", ![d].result = -1]

\* run_method starts and its match finds a method function
thread_begin(d) ==
    /\ threads[d].state = "spawned"
    /\ threads[d].key \in MethodNames
    /\ threads' = [threads EXCEPT ![d].state = "running", ![d].pass = 1,
                                  ![d].op = "seek"]
    /\ UNCHANGED << entry, options, flag_vars, engine_vars, main_pc,
                    selected_contexts, can_open, nowait, main_k, main_i,
                    thread_handles, wipe_threads_started, fd_table, fd_closer,
                    file_closer, early_close, close_failed, ebadf_cause,
                    return_status, exit_code >>

\* run_method starts and returns -1: "Unknown wipe method"
thread_unknown_method(d) ==
    /\ threads[d].state = "spawned"
    /\ threads[d].key \notin MethodNames
    /\ threads' = [threads EXCEPT ![d].state = "returned", ![d].result = -1]
    /\ UNCHANGED << entry, options, flag_vars, engine_vars, main_pc,
                    selected_contexts, can_open, nowait, main_k, main_i,
                    thread_handles, wipe_threads_started, fd_table, fd_closer,
                    file_closer, early_close, close_failed, ebadf_cause,
                    return_status, exit_code >>

\* the thread's pass needs a generator that init_prng does not know
thread_needs_unknown_prng(t) ==
    /\ thread_passes(t)[t.pass].drv = "write_random"
    /\ ~init_prng_ok(t.key)

\* the seek, read, write or fsync the thread is at succeeds
thread_op_ok(d) ==
    /\ threads[d].state = "running"
    /\ fd_table[threads[d].fd] # 0
    /\ threads[d].op = "rw" => FALSE \in terminate_read
    /\ ~(threads[d].op = "seek" /\ thread_needs_unknown_prng(threads[d]))
    /\ threads' = [threads EXCEPT ![d] = thread_advance(threads[d])]
    /\ UNCHANGED << entry, options, flag_vars, engine_vars, main_pc,
                    selected_contexts, can_open, nowait, main_k, main_i,
                    thread_handles, wipe_threads_started, fd_table, fd_closer,
                    file_closer, early_close, close_failed, ebadf_cause,
                    return_status, exit_code >>

\* the seek of write_random succeeds and init_prng fails: "Unknown PRNG"
thread_unknown_prng(d) ==
    /\ threads[d].state = "running"
    /\ fd_table[threads[d].fd] # 0
    /\ threads[d].op = "seek" /\ thread_needs_unknown_prng(threads[d])
    /\ thread_err(d)
    /\ UNCHANGED << entry, options, flag_vars, engine_vars, main_pc,
                    selected_contexts, can_open, nowait, main_k, main_i,
                    thread_handles, wipe_threads_started, ebadf_cause,
                    return_status, exit_code >>

\* the call fails on an open descriptor (an I/O error, a verify mismatch)
thread_op_fail(d) ==
    /\ threads[d].state = "running"
    /\ fd_table[threads[d].fd] # 0
    /\ threads[d].op = "rw" => FALSE \in terminate_read
    /\ thread_err(d)
    /\ UNCHANGED << entry, options, flag_vars, engine_vars, main_pc,
                    selected_contexts, can_open, nowait, main_k, main_i,
                    thread_handles, wipe_threads_started, ebadf_cause,
                    return_status, exit_code >>

\* the call fails with EBADF: the descriptor number is not open any more
thread_op_ebadf(d) ==
    /\ threads[d].state = "running"
    /\ fd_table[threads[d].fd] = 0
    /\ threads[d].op = "rw" => FALSE \in terminate_read
    /\ ebadf_cause' = [ebadf_cause EXCEPT ![d] = fd_closer[threads[d].fd]]
    /\ thread_err(d)
    /\ UNCHANGED << entry, options, flag_vars, engine_vars, main_pc,
                    selected_contexts, can_open, nowait, main_k, main_i,
                    thread_handles, wipe_threads_started, return_status,
                    exit_code >>

\* top of the block loop: the flag is read as set, Err(Interrupted)
thread_interrupted(d) ==
    /\ threads[d].state = "running"
    /\ threads[d].op = "rw"
    /\ TRUE \in terminate_read
    /\ thread_err(d)
    /\ UNCHANGED << entry, options, flag_vars, engine_vars, main_pc,
                    selected_contexts, can_open, nowait, main_k, main_i,
                    thread_handles, wipe_threads_started, ebadf_cause,
                    return_status, exit_code >>

Supervisor ==
    \/ main_start_aborted
    \/ main_start
    \/ main_open_ok
    \/ main_drop_file
    \/ main_open_fail
    \/ main_wait_exit
    \/ main_wait_next
    \/ main_wait_restart
    \/ main_sleep
    \/ main_hold_exit
    \/ main_hold_poll
    \/ main_hold_sleep
    \/ main_join_close
    \/ main_join_done
    \/ main_aggregate
    \/ main_exit

Thread(d) ==
    \/ thread_begin(d)
    \/ thread_unknown_method(d)
    \/ thread_op_ok(d)
    \/ thread_unknown_prng(d)
    \/ thread_op_fail(d)
    \/ thread_op_ebadf(d)
    \/ thread_interrupted(d)

MainNext ==
    \/ Supervisor
    \/ \E d \in DOMAIN threads : thread_begin(d)
    \/ \E d \in DOMAIN threads : thread_unknown_method(d)
    \/ \E d \in DOMAIN threads : thread_op_ok(d)
    \/ \E d \in DOMAIN threads : thread_unknown_prng(d)
    \/ \E d \in DOMAIN threads : thread_op_fail(d)
    \/ \E d \in DOMAIN threads : thread_op_ebadf(d)
    \/ \E d \in DOMAIN threads : thread_interrupted(d)
    \/ main_signal

\* The supervisor's thread and every wipe thread are scheduled as long as they
\* can take a step.
MainSpec ==
    /\ MainInit
    /\ [][MainNext]_vars
    /\ WF_vars(Supervisor)
    /\ \A d \in 1..MaxDevices : WF_vars(d \in DOMAIN threads /\ Thread(d))

(***************************************************************************)
(* The aggregation of main.rs on its own: main is past the joins, and the  *)
(* result fields of the selected contexts hold any combination of values.  *)
(***************************************************************************)
\* largest absolute value of a context's result
MaxResult == 2

AggInit ==
    /\ entry = "cli"
    /\ options \in { o \in MainOptions : o.prng = "isaac" }
    /\ EngineIdle
    /\ UnitIdle
    /\ TERMINATE_SIGNAL = FALSE
    /\ USER_ABORT = FALSE
    /\ nowait = TRUE
    /\ wipe_threads_started \in BOOLEAN
    /\ \E n \in 0..MaxDevices :
         /\ \E results \in [1..n -> (-MaxResult)..MaxResult] :
              selected_contexts = [d \in 1..n |->
                  [selected_context EXCEPT !.wipe_status = -1, !.result = results[d]]]
         /\ can_open = [d \in 1..n |-> FALSE]
         /\ threads = [d \in 1..n |-> NoThread]
         /\ fd_table = [x \in 1..n |-> 0]
         /\ fd_closer = [x \in 1..n |-> Nobody]
         /\ file_closer = [d \in 1..n |-> Nobody]
         /\ ebadf_cause = [d \in 1..n |-> Nobody]
         /\ main_k = n + 1
    /\ main_pc = "aggregate"
    /\ main_i = 1
    /\ thread_handles = << >>
    /\ early_close = {}
    /\ close_failed = FALSE
    /\ return_status = 0
    /\ exit_code = -1

AggNext ==
    \/ main_aggregate
    \/ main_exit

AggSpec == AggInit /\ [][AggNext]_vars

(***************************************************************************)
(* prng.rs on its own: the generators behind NwipePrng.  A generator is    *)
(* its seed and the number of 64-bit words it has handed out; the only     *)
(* operations are the constructor, which takes its seed from the entropy   *)
(* source of the OS, and fill_bytes.                                       *)
(***************************************************************************)
\* largest length of a fill request
MaxFill == 9

\* bytes of a u64 (to_le_bytes)
WordBytes == 8

\* everything outside a run that exercises one function on its own
wipe_vars == << entry, options, flag_vars, pc, context, shared, device, local_vars,
               result, now, file_pos, fd_open, ext_writes, io_hist_vars,
               pass_hist_vars, passes_done, main_vars >>

\* no wipe and no supervisor is running
WipeIdle ==
    /\ entry = "cli"
    /\ options \in { o \in MainOptions : o.prng = "isaac" }
    /\ TERMINATE_SIGNAL = FALSE
    /\ USER_ABORT = FALSE
    /\ EngineIdle
    /\ MainIdle

\* IsaacPrng::new, Mt19937Prng::new, StdPrng::new with the entropy `seed`
prng_new(seed) == [seed |-> seed, words |-> 0]

\* Mt19937Prng::fill_bytes: dest.chunks_mut(8) takes one next_u64 per chunk,
\* also for a last chunk of fewer than 8 bytes
fill_words(n) == (n + WordBytes - 1) \div WordBytes

\* Mt19937Prng::fill_bytes: byte i of chunk c is byte i (little endian) of the
\* c-th word handed out by this call
Mt19937Prng_fill_bytes(g, n) ==
    [ out |-> [k \in 1..n |->
                 PrngOut(g.seed, WordBytes * (g.words + ((k - 1) \div WordBytes))
                                 + ((k - 1) % WordBytes))],
      gen |-> [g EXCEPT !.words = @ + fill_words(n)] ]

\* the generators whose fill_bytes is code of prng.rs
Mt19937Names == {"mt19937", "twister"}

\* a generator has been created; fills of a and of b bytes are to be compared
\* with one fill of a + b bytes from the same state
FillInit ==
    /\ WipeIdle
    /\ unit_pc = "first"
    /\ \E name \in Mt19937Names, seed \in 1..MaxSeed, a \in 0..MaxFill, b \in 0..MaxFill :
         /\ unit_in = [name |-> name, a |-> a, b |-> b]
         /\ unit_st = [g |-> prng_new(seed), g0 |-> prng_new(seed)]
    /\ unit_out = [first |-> << >>, second |-> << >>, whole |-> << >>]

\* fill_bytes on a buffer of a bytes
fill_first ==
    /\ unit_pc = "first"
    /\ LET r == Mt19937Prng_fill_bytes(unit_st.g, unit_in.a)
       IN /\ unit_out' = [unit_out EXCEPT !.first = r.out]
          /\ unit_st' = [unit_st EXCEPT !.g = r.gen]
    /\ unit_pc' = "second"
    /\ UNCHANGED << wipe_vars, unit_in >>

\* fill_bytes on a buffer of b bytes, on the generator as the first fill left it
fill_second ==
    /\ unit_pc = "second"
    /\ LET r == Mt19937Prng_fill_bytes(unit_st.g, unit_in.b)
       IN /\ unit_out' = [unit_out EXCEPT !.second = r.out]
          /\ unit_st' = [unit_st EXCEPT !.g = r.gen]
    /\ unit_pc' = "whole"
    /\ UNCHANGED << wipe_vars, unit_in >>

\* fill_bytes on a buffer of a + b bytes, on a generator in the initial state
fill_whole ==
    /\ unit_pc = "whole"
    /\ LET r == Mt19937Prng_fill_bytes(unit_st.g0, unit_in.a + unit_in.b)
       IN /\ unit_out' = [unit_out EXCEPT !.whole = r.out]
          /\ unit_st' = [unit_st EXCEPT !.g0 = r.gen]
    /\ unit_pc' = "done"
    /\ UNCHANGED << wipe_vars, unit_in >>

FillNext ==
    \/ fill_first
    \/ fill_second
    \/ fill_whole

FillSpec == FillInit /\ [][FillNext]_vars

\* fill_bytes of the generator `name` on a buffer of n bytes, for a generator
\* that has handed out whole words only
prng_fill_bytes(name, g, n) ==
    IF name \in Mt19937Names THEN Mt19937Prng_fill_bytes(g, n)
    ELSE [ out |-> fill_bytes(g.seed, WordBytes * g.words, n),
           gen |-> [g EXCEPT !.words = @ + fill_words(n)] ]

\* A caller wants a generator of the variant `name` to run from the seed S
\* twice and to fill n bytes each time.
ReseedInit ==
    /\ WipeIdle
    /\ unit_pc = "seed_1"
    /\ \E name \in PrngNames, S \in 1..MaxSeed, n \in 0..MaxFill :
         unit_in = [name |-> name, seed |-> S, n |-> n]
    /\ unit_st = [g |-> prng_new(0)]
    /\ unit_out = [fill_1 |-> << >>, fill_2 |-> << >>]

\* NwipePrng has no operation that takes a seed; all a caller can do to
\* reinitialise is init_prng(name), whose constructor draws the seed from the
\* OS entropy source
init_prng_again ==
    /\ unit_pc \in {"seed_1", "seed_2"}
    /\ \E entropy \in 1..MaxSeed : unit_st' = [unit_st EXCEPT !.g = prng_new(entropy)]
    /\ unit_pc' = IF unit_pc = "seed_1" THEN "fill_1" ELSE "fill_2"
    /\ UNCHANGED << wipe_vars, unit_in, unit_out >>

\* fill_bytes on a buffer of n bytes
fill_after_seed ==
    /\ unit_pc \in {"fill_1", "fill_2"}
    /\ LET r == prng_fill_bytes(unit_in.name, unit_st.g, unit_in.n)
       IN /\ unit_out' = IF unit_pc = "fill_1" THEN [unit_out EXCEPT !.fill_1 = r.out]
                                               ELSE [unit_out EXCEPT !.fill_2 = r.out]
          /\ unit_st' = [unit_st EXCEPT !.g = r.gen]
    /\ unit_pc' = IF unit_pc = "fill_1" THEN "seed_2" ELSE "done"
    /\ UNCHANGED << wipe_vars, unit_in >>

ReseedNext ==
    \/ init_prng_again
    \/ fill_after_seed

ReseedSpec == ReseedInit /\ [][ReseedNext]_vars

(***************************************************************************)
(* main.rs and gui.rs: the selection of the devices, from the enumerated   *)
(* contexts to the start of the threads, followed by the supervisor above  *)
(***************************************************************************)
\* the worker's variables
worker_vars == << pc, context, shared, device, local_vars, result, now, file_pos,
                 fd_open, ext_writes, io_hist_vars, pass_hist_vars, passes_done >>

\* the supervisor's variables the selection leaves alone
sel_frame == << entry, options, worker_vars, unit_pc, unit_in, nowait, main_k, main_i,
               thread_handles, wipe_threads_started, early_close, close_failed,
               return_status, exit_code >>
sel_lists == << selected_contexts, can_open, threads, fd_table, fd_closer,
               file_closer, ebadf_cause >>

\* device_scan found 1..MaxDevices devices (with none main returns at once);
\* NwipeContext::default leaves select at False
SelInit ==
    /\ entry = "cli"
    /\ options \in MainOptions
    /\ EngineIdle
    /\ TERMINATE_SIGNAL = FALSE
    /\ USER_ABORT = FALSE
    /\ nowait \in BOOLEAN
    /\ unit_pc = "selection"
    /\ unit_in \in [autonuke : BOOLEAN, nogui : BOOLEAN]
    /\ \E n \in 1..MaxDevices :
         unit_st = [contexts |-> [e \in 1..n |-> "False"], selected |-> 0,
                    quit |-> FALSE, origin |-> << >>]
    /\ unit_out = << >>
    /\ main_pc = "setup"
    /\ selected_contexts = << >>
    /\ can_open = << >>
    /\ threads = << >>
    /\ fd_table = << >>
    /\ fd_closer = << >>
    /\ file_closer = << >>
    /\ ebadf_cause = << >>
    /\ main_k = 1
    /\ main_i = 0
    /\ thread_handles = << >>
    /\ wipe_threads_started = FALSE
    /\ early_close = {}
    /\ close_failed = FALSE
    /\ return_status = 0
    /\ exit_code = -1

nwipe_enumerated == Len(unit_st.contexts)

\* "Set specific nwipe options for each device" and "Handle device selection"
main_set_select ==
    /\ main_pc = "setup"
    /\ unit_st' = [unit_st EXCEPT !.contexts =
                     [e \in 1..nwipe_enumerated |->
                         IF unit_in.autonuke THEN "True" ELSE "False"]]
    /\ main_pc' = IF unit_in.autonuke THEN "collect"
                  ELSE IF unit_in.nogui THEN "exited"
                  ELSE "select"
    /\ exit_code' = IF ~unit_in.autonuke /\ unit_in.nogui THEN 0 ELSE exit_code
    /\ UNCHANGED << entry, options, flag_vars, worker_vars, unit_pc, unit_in, unit_out,
                    nowait, main_k, main_i, thread_handles, wipe_threads_started,
                    early_close, close_failed, return_status, sel_lists >>

\* gui_select, KeyCode::Up and KeyCode::Down
gui_select_move ==
    /\ main_pc = "select"
    /\ \/ unit_st.selected > 0 /\ unit_st' = [unit_st EXCEPT !.selected = @ - 1]
       \/ /\ unit_st.selected < nwipe_enumerated - 1
          /\ unit_st' = [unit_st EXCEPT !.selected = @ + 1]
    /\ UNCHANGED << sel_frame, sel_lists, flag_vars, main_pc, unit_out >>

\* the status the space key gives the highlighted device
toggle(status) == IF status = "True" THEN "False" ELSE "True"

\* gui_select, KeyCode::Char(' ')
gui_select_toggle ==
    /\ main_pc = "select"
    /\ unit_st' = [unit_st EXCEPT !.contexts[unit_st.selected + 1] = toggle(@)]
    /\ UNCHANGED << sel_frame, sel_lists, flag_vars, main_pc, unit_out >>

\* gui_select, KeyCode::Enter
gui_select_enter ==
    /\ main_pc = "select"
    /\ main_pc' = "collect"
    /\ UNCHANGED << sel_frame, sel_lists, flag_vars, unit_st, unit_out >>

\* gui_select, 'q' or 'Q'
gui_select_quit ==
    /\ main_pc = "select"
    /\ USER_ABORT' = TRUE
    /\ unit_st' = [unit_st EXCEPT !.quit = TRUE]
    /\ main_pc' = "collect"
    /\ UNCHANGED << sel_frame, sel_lists, TERMINATE_SIGNAL, unit_out >>

\* the contexts main pushes to selected_contexts, by their index in `contexts`
RECURSIVE collect_selected(_, _)
collect_selected(contexts, e) ==
    IF e > Len(contexts) THEN << >>
    ELSE (IF contexts[e] = "True" THEN << e >> ELSE << >>)
            \o collect_selected(contexts, e + 1)

collected(contexts) == collect_selected(contexts, 1)

\* "Count and collect selected contexts"; which devices can be opened is
\* settled by the system
main_collect ==
    /\ main_pc = "collect"
    /\ LET origin == collected(unit_st.contexts)
           n == Len(origin)
       IN /\ unit_st' = [unit_st EXCEPT !.origin = origin, !.selected = 0]
          /\ unit_out' = [at_start |-> unit_st.contexts]
          /\ selected_contexts' = [d \in 1..n |-> selected_context]
          /\ can_open' \in [1..n -> BOOLEAN]
          /\ threads' = [d \in 1..n |-> NoThread]
          /\ fd_table' = [x \in 1..n |-> 0]
          /\ fd_closer' = [x \in 1..n |-> Nobody]
          /\ file_closer' = [d \in 1..n |-> Nobody]
          /\ ebadf_cause' = [d \in 1..n |-> Nobody]
    /\ main_pc' = "start"
    /\ UNCHANGED << sel_frame, flag_vars >>

SelNext ==
    \/ main_set_select
    \/ gui_select_move
    \/ gui_select_toggle
    \/ gui_select_enter
    \/ gui_select_quit
    \/ main_collect
    \/ Supervisor
    \/ \E d \in DOMAIN threads : thread_begin(d)
    \/ \E d \in DOMAIN threads : thread_unknown_method(d)
    \/ \E d \in DOMAIN threads : thread_op_ok(d)
    \/ \E d \in DOMAIN threads : thread_unknown_prng(d)
    \/ \E d \in DOMAIN threads : thread_op_fail(d)
    \/ \E d \in DOMAIN threads : thread_op_ebadf(d)
    \/ \E d \in DOMAIN threads : thread_interrupted(d)
    \/ main_signal

SelSpec == SelInit /\ [][SelNext]_vars

(***************************************************************************)
(* gui_app.rs: NwipeApp.  The UI thread runs update() frame after frame;   *)
(* a click runs its handler to the end within the frame, and stop_wiping   *)
(* blocks the UI thread in its joins while the wipe threads go on.         *)
(***************************************************************************)
\* largest number of block-loop iterations of a wipe thread
MaxBlocks == 2

\* the variables of the supervisor of main.rs, which the GUI does not run
gui_frame == << entry, options, worker_vars, main_vars >>

\* a context of the device list as device_scan creates it
gui_device ==
    [ select |-> "False",
      wipe_status |-> NwipeContext_default(0).wipe_status,
      result |-> NwipeContext_default(0).result ]

\* no wipe thread exists for the device
NoWorker == [ state |-> "none", left |-> 0, result |-> 0, cancelled |-> FALSE ]

\* the fields of NwipeApp and the wipe threads
devices == unit_st.devices
wipe_threads == unit_st.wipe_threads
wiping_in_progress == unit_st.wiping_in_progress
show_confirmation == unit_st.show_confirmation
workers == unit_out.workers

\* NwipeApp::default: the devices are scanned, nothing is running
GuiInit ==
    /\ entry = "gui"
    /\ options \in { o \in GuiOptions : o.method = "ops2" /\ o.prng = "isaac"
                                        /\ o.rounds = 1 /\ o.verify }
    /\ EngineIdle
    /\ MainIdle
    /\ TERMINATE_SIGNAL = FALSE
    /\ USER_ABORT = FALSE
    /\ unit_pc = "ui"
    /\ unit_in \in [attached : 1..MaxDevices]
    /\ unit_st = [ devices |-> [d \in 1..unit_in.attached |-> gui_device],
                   wipe_threads |-> << >>,
                   wiping_in_progress |-> FALSE,
                   show_confirmation |-> FALSE,
                   stopped |-> FALSE ]
    /\ unit_out = [ workers |-> [d \in 1..unit_in.attached |-> NoWorker],
                    wiped |-> {} ]

\* refresh_devices: the list is cleared and scanned again
refresh_devices ==
    /\ unit_pc = "ui"
    /\ unit_st' = [unit_st EXCEPT !.devices = [d \in 1..unit_in.attached |-> gui_device]]
    /\ UNCHANGED << gui_frame, flag_vars, unit_pc, unit_in, unit_out >>

\* update: the checkbox of a device, "Select All" and "Deselect All"
gui_checkbox ==
    /\ unit_pc = "ui"
    /\ \/ \E d \in DOMAIN devices :
            unit_st' = [unit_st EXCEPT !.devices[d].select = toggle(@)]
       \/ \E status \in {"True", "False"} :
            unit_st' = [unit_st EXCEPT !.devices =
                          [d \in DOMAIN devices |-> [devices[d] EXCEPT !.select = status]]]
    /\ UNCHANGED << gui_frame, flag_vars, unit_pc, unit_in, unit_out >>

\* update: "Start Wiping" is offered while no wipe is in progress and opens
\* the confirmation when a device is selected
gui_start_button ==
    /\ unit_pc = "ui"
    /\ ~wiping_in_progress
    /\ \E d \in DOMAIN devices : devices[d].select = "True"
    /\ unit_st' = [unit_st EXCEPT !.show_confirmation = TRUE]
    /\ UNCHANGED << gui_frame, flag_vars, unit_pc, unit_in, unit_out >>

\* update: "Cancel" in the confirmation
gui_confirm_cancel ==
    /\ unit_pc = "ui"
    /\ show_confirmation
    /\ unit_st' = [unit_st EXCEPT !.show_confirmation = FALSE]
    /\ UNCHANGED << gui_frame, flag_vars, unit_pc, unit_in, unit_out >>

\* the devices start_wiping spawns a thread for
selected_devices == collected([d \in DOMAIN devices |-> devices[d].select])

\* update: "Yes, Wipe the Devices", which calls start_wiping: nothing when a
\* wipe is in progress or no device is selected, else one thread per selected
\* device; the length of each thread's work is settled by its device
start_wiping ==
    /\ unit_pc = "ui"
    /\ show_confirmation
    /\ IF wiping_in_progress \/ selected_devices = << >>
       THEN /\ unit_st' = [unit_st EXCEPT !.show_confirmation = FALSE]
            /\ unit_out' = unit_out
       ELSE /\ unit_st' = [unit_st EXCEPT !.show_confirmation = FALSE,
                                          !.wipe_threads = selected_devices,
                                          !.wiping_in_progress = TRUE]
            /\ \E left \in [DOMAIN devices -> 0..MaxBlocks] :
                 unit_out' = [unit_out EXCEPT !.workers =
                    [d \in DOMAIN devices |->
                       IF devices[d].select = "True"
                       THEN [ state |-> "running", left |-> left[d], result |-> 0,
                              cancelled |-> FALSE ]
                       ELSE workers[d]]]
    /\ UNCHANGED << gui_frame, flag_vars, unit_pc, unit_in >>

\* a wipe thread at the top of a block loop reads the flag as set: the
\* driver returns Interrupted and the method function -1
gui_worker_interrupted(d) ==
    /\ workers[d].state = "running" /\ workers[d].left > 0
    /\ TRUE \in terminate_read
    /\ unit_out' = [unit_out EXCEPT !.workers[d].left = 0, !.workers[d].result = -1,
                                    !.workers[d].state = "returned",
                                    !.workers[d].cancelled = TRUE]
    /\ UNCHANGED << gui_frame, flag_vars, unit_pc, unit_in, unit_st >>

\* a wipe thread goes through one iteration of a block loop, or a call on the
\* device fails and the method function returns -1, or the subtraction of
\* update_eta_throughput panics and the thread ends where it is
gui_worker_block(d) ==
    /\ workers[d].state = "running" /\ workers[d].left > 0
    /\ FALSE \in terminate_read
    /\ \/ unit_out' = [unit_out EXCEPT !.workers[d].left = @ - 1]
       \/ unit_out' = [unit_out EXCEPT !.workers[d].left = 0, !.workers[d].result = -1,
                                       !.workers[d].state = "returned"]
       \/ unit_out' = [unit_out EXCEPT !.workers[d].left = 0,
                                       !.workers[d].state = "finished"]
    /\ UNCHANGED << gui_frame, flag_vars, unit_pc, unit_in, unit_st >>

\* the method function returns 0 after its last pass
gui_worker_return(d) ==
    /\ workers[d].state = "running" /\ workers[d].left = 0
    /\ unit_out' = [unit_out EXCEPT !.workers[d].state = "returned"]
    /\ UNCHANGED << gui_frame, flag_vars, unit_pc, unit_in, unit_st >>

\* "Update the device status": under the lock, the context with the thread's
\* device name gets the result; then the thread ends
gui_worker_end(d) ==
    /\ workers[d].state = "returned"
    /\ unit_st' = [unit_st EXCEPT !.devices[d] =
                      [@ EXCEPT !.result = workers[d].result, !.wipe_status = 0]]
    /\ unit_out' = [unit_out EXCEPT !.workers[d].state = "finished",
                                    !.wiped = @ \cup {d}]
    /\ UNCHANGED << gui_frame, flag_vars, unit_pc, unit_in >>

\* JoinHandle::join returns for the threads that have finished
joined(ws, handles) ==
    [d \in DOMAIN ws |->
        IF \E i \in DOMAIN handles : handles[i] = d THEN NoWorker ELSE ws[d]]

\* check_wiping_finished, called at the top of every update: when every
\* handle is finished they are joined and wiping_in_progress is cleared
check_wiping_finished ==
    /\ unit_pc = "ui"
    /\ wiping_in_progress
    /\ \A i \in DOMAIN wipe_threads : workers[wipe_threads[i]].state = "finished"
    /\ unit_st' = [unit_st EXCEPT !.wipe_threads = << >>, !.wiping_in_progress = FALSE]
    /\ unit_out' = [unit_out EXCEPT !.workers = joined(workers, wipe_threads)]
    /\ UNCHANGED << gui_frame, flag_vars, unit_pc, unit_in >>

\* stop_wiping, from "Stop Wiping" (offered while a wipe is in progress), up
\* to its join loop: both flags are set
stop_wiping_begin ==
    /\ unit_pc = "ui"
    /\ wiping_in_progress
    /\ TERMINATE_SIGNAL' = TRUE
    /\ USER_ABORT' = TRUE
    /\ unit_pc' = "stop_wiping"
    /\ UNCHANGED << gui_frame, unit_in, unit_st, unit_out >>

\* stop_wiping: handle.join() returns for the next handle
stop_wiping_join ==
    /\ unit_pc = "stop_wiping"
    /\ wipe_threads # << >>
    /\ workers[Head(wipe_threads)].state = "finished"
    /\ unit_st' = [unit_st EXCEPT !.wipe_threads = Tail(@)]
    /\ unit_out' = [unit_out EXCEPT !.workers = joined(workers, << Head(wipe_threads) >>)]
    /\ UNCHANGED << gui_frame, flag_vars, unit_pc, unit_in >>

\* the join loop of stop_wiping is left without waiting for the handles
stop_wiping_joined_nowait(handles) == TRUE

\* the join loop of stop_wiping is over
stop_wiping_joined(handles) == handles = << >>

\* stop_wiping after the join loop: the flags and wiping_in_progress are reset
stop_wiping_end ==
    /\ unit_pc = "stop_wiping"
    /\ stop_wiping_joined(wipe_threads)
    /\ TERMINATE_SIGNAL' = FALSE
    /\ USER_ABORT' = FALSE
    /\ unit_st' = [unit_st EXCEPT !.wipe_threads = << >>, !.wiping_in_progress = FALSE,
                                  !.stopped = TRUE]
    /\ unit_pc' = "ui"
    /\ UNCHANGED << gui_frame, unit_in, unit_out >>

GuiNext ==
    \/ refresh_devices
    \/ gui_checkbox
    \/ gui_start_button
    \/ gui_confirm_cancel
    \/ start_wiping
    \/ \E d \in DOMAIN workers : gui_worker_interrupted(d)
    \/ \E d \in DOMAIN workers : gui_worker_block(d)
    \/ \E d \in DOMAIN workers : gui_worker_return(d)
    \/ \E d \in DOMAIN workers : gui_worker_end(d)
    \/ check_wiping_finished
    \/ stop_wiping_begin
    \/ stop_wiping_join
    \/ stop_wiping_end

GuiSpec == GuiInit /\ [][GuiNext]_vars

(***************************************************************************)
(* Properties                                                              *)
(***************************************************************************)
Min(a, b) == IF a < b THEN a ELSE b

\* the least n with n * b >= a
CeilDiv(a, b) == CHOOSE n \in 0..a : n * b >= a /\ (n = 0 \/ (n - 1) * b < a)

\* the pass started last has returned Ok
LastPassOk == passes_done > 0 /\ Len(pass_log) = passes_done
LastPass == pass_log[Len(pass_log)]

\* what the user asked for
M == options.method
R == options.rounds
\* the number of write passes per round of each catalog method
WritePassesPerRound(m) ==
    CASE m = "zero" -> 1
      [] m = "random" -> 1
      [] m = "dod" -> 3
      [] m = "ops2" -> 3
      [] m = "gutmann" -> 35
      [] OTHER -> 0

\* the wipe has returned, with code 0, without failure or cancellation
CleanFinish == pc = "done" /\ result = 0

\* C1: every write call the engine issues ends at or before device_size.
C1_NoWritePastEnd ==
    last_write.off + last_write.len <= context.device_size

\* C1 witness: the truncated last write of a device that is not a multiple of
\* the buffer size and larger than one buffer
C1_Witness ==
    /\ context.device_size % NWIPE_KNOB_BUFSIZE # 0
    /\ last_write.off > 0
    /\ last_write.len > 0
    /\ last_write.off + last_write.len = context.device_size
    /\ cur.drv = "write_random"

\* C2 (as claimed): a run of method M with R rounds that finishes cleanly has
\* written device_size * R * P bytes through the handle, plus device_size
\* for ops2.
C2_Claim ==
    (CleanFinish /\ M \in MethodNames /\ key = M)
        => handle_bytes = context.device_size * R * WritePassesPerRound(M)
                          + (IF M = "ops2" THEN context.device_size ELSE 0)

\* C3: a write pass that completes writes device_size bytes in
\* ceil(device_size / BUF) calls, each of BUF bytes except a truncated last one.
C3_WritePassTotal ==
    /\ (pc = "io" /\ is_write(cur.drv) /\ pass_calls > 0) =>
          last_write.len = Min(NWIPE_KNOB_BUFSIZE, context.device_size - last_write.off)
    /\ ((pc = "fsync") \/ (LastPassOk /\ is_write(LastPass.drv))) =>
          /\ pass_bytes = context.device_size
          /\ pass_calls = CeilDiv(context.device_size, NWIPE_KNOB_BUFSIZE)
          /\ (pass_calls > 0 => last_write.off + last_write.len = context.device_size)

\* C3 witness: a completed write pass over a device of one and a half buffers
C3_Witness ==
    /\ LastPassOk /\ is_write(LastPass.drv)
    /\ context.device_size = NWIPE_KNOB_BUFSIZE + 1
    /\ pass_calls = 2

\* C4 (as claimed): a verify pass after a PRNG write pass returns Ok only if
\* the device holds the stream that write pass produced.
C4_Claim ==
    (LastPassOk /\ LastPass.drv = "verify_random") => device = stream

\* C5 (as claimed): with the verify flag every write pass is directly followed
\* by the verify pass of its kind; without the flag no verify pass runs.
C5_Claim ==
    /\ context.verify =>
         \A i \in 1..(Len(pass_log) - 1) :
            /\ pass_log[i].drv = "write_pattern" =>
                  /\ pass_log[i + 1].drv = "verify_pattern"
                  /\ pass_log[i + 1].pattern = pass_log[i].pattern
            /\ pass_log[i].drv = "write_random" => pass_log[i + 1].drv = "verify_random"
    /\ ~context.verify => \A i \in 1..Len(pass_log) : ~is_verify(pass_log[i].drv)

\* C6 (as claimed): run_method on a catalog method with a valid PRNG name
\* runs that method's schedule and returns 0 when no I/O fails, nothing
\* interferes with the device and nobody cancels.
C6_Claim ==
    (/\ entry = "cli" /\ pc = "done"
     /\ M \in MethodNames /\ options.prng \in PrngNames
     /\ ~io_error /\ ext_writes = 0 /\ ~TERMINATE_SIGNAL)
        => result = 0 /\ key = M

\* C7 (as claimed): round_count is the configured number of rounds and a clean
\* run performs exactly that many rounds of write passes.
C7_Claim ==
    /\ (entry = "gui" /\ pc \in {"pass", "loop", "io", "fsync"}) =>
          context.round_count = R
    /\ (CleanFinish /\ M \in MethodNames /\ key = M) =>
          Cardinality({i \in 1..Len(pass_log) : is_write(pass_log[i].drv)})
             = R * WritePassesPerRound(M) + (IF M = "ops2" THEN 1 ELSE 0)

\* the wipe_status a reader of the device's context sees
VisibleStatus == IF entry = "gui" THEN shared.wipe_status ELSE context.wipe_status

\* C8 (as claimed): a wipe whose worker saw the terminate flag ends with
\* result > 0, wipe_status completed and at most one pass more than the
\* completed ones counted in bytes_written.
C8_Claim ==
    (pc = "done" /\ cancel_seen) =>
        /\ result > 0
        /\ VisibleStatus = 0
        /\ context.bytes_written <= context.device_size * (passes_done + 1)

\* C9 (as claimed): a worker that saw the terminate flag in the middle of a
\* write pass has attempted an fsync by the time it finishes.
C9_Claim ==
    (pc = "done" /\ cancel_seen /\ is_write(LastPass.drv) /\ pass_calls > 0) =>
        \E i \in 1..Len(ops_after_cancel) : ops_after_cancel[i] = "fsync"


C11_Claim ==
    (entry = "cli" /\ pc = "done") =>
        /\ shared.wipe_status = 0
        /\ shared.end_time = context.end_time
        /\ shared.result = result

\* C13 (as claimed): progress the worker has recorded is visible in the
\* device's context that the UI reads.  A progress update that became visible
\* while the wipe ran is still there when the wipe is over, because nobody but
\* the worker writes those fields.
C13_Claim ==
    (CleanFinish /\ context.bytes_written > 0) =>
        /\ shared.bytes_written > 0
        /\ shared.bytes_total > 0

\* C19 (as claimed): with an unknown method name or an unknown PRNG name the
\* wipe returns a negative result and no driver has been entered (no seek), no
\* byte written; checked on the runs without I/O failure and cancellation.
C19_Claim ==
    (/\ pc = "done" /\ ~io_error /\ ~TERMINATE_SIGNAL
     /\ (key \notin MethodNames \/ ~init_prng_ok(context.prng))) =>
        /\ result < 0
        /\ pass_log = << >>
        /\ handle_bytes = 0

\* C20 (as claimed): after a completed write_pattern pass with pattern p the
\* device byte at every offset o is p[o mod len(p)].
C20_Claim ==
    (LastPassOk /\ LastPass.drv = "write_pattern" /\ ext_writes = 0) =>
        \A o \in 0..(context.device_size - 1) :
            device[o + 1] = LastPass.pattern[(o % Len(LastPass.pattern)) + 1]

\* every spawned wipe thread has returned
AllThreadsReturned ==
    \A d \in DOMAIN threads : threads[d].state \in {"none", "returned"}

\* C12 (as claimed): once every spawned wipe thread has returned, the
\* supervisor leaves its wait loop without the terminate flag being set, also
\* when a selected device could not be opened.
C12_Claim ==
    (main_pc \in {"wait", "sleep"} /\ AllThreadsReturned /\ ~TERMINATE_SIGNAL)
        ~> (main_pc \notin {"wait", "sleep"} \/ TERMINATE_SIGNAL)

\* C14 (as claimed): a device's file is never closed while its wipe thread may
\* still issue I/O, no close fails on a descriptor that is already closed, and
\* a device's file is closed by the supervisor's close after the join of that
\* device's thread and by nothing else.
C14_Claim ==
    /\ early_close = {}
    /\ ~close_failed
    /\ \A d \in DOMAIN file_closer :
         \/ file_closer[d] = Nobody
         \/ /\ file_closer[d][1] = "main_close"
            /\ thread_handles[file_closer[d][2]] = d

\* the results main.rs aggregates
C15_Results == { selected_contexts[d].result : d \in DOMAIN selected_contexts }

\* C15: after the aggregation the status is 0 if every result is 0, 1 if some
\* result is positive and none is negative, and -1 if any result is negative.
C15_Aggregate ==
    main_pc \in {"summary", "exited"} =>
        /\ (\A r \in C15_Results : r = 0) => return_status = 0
        /\ ((\E r \in C15_Results : r > 0) /\ (\A r \in C15_Results : r >= 0))
               => return_status = 1
        /\ (\E r \in C15_Results : r < 0) => return_status = -1

\* C15 witness: threads were started, one context holds a negative and another
\* a positive result, and the aggregation has run.
C15_Witness ==
    /\ main_pc = "summary"
    /\ wipe_threads_started
    /\ \E r \in C15_Results : r < 0
    /\ \E r \in C15_Results : r > 0
    /\ return_status = -1

\* C16 (as claimed): the process exits with 0 only when run_method returned 0
\* for every device that was wiped, and with 1 otherwise.
C16_Claim ==
    main_pc = "exited" =>
        exit_code = (IF \A d \in DOMAIN threads :
                           threads[d].state = "returned" => threads[d].result = 0
                     THEN 0 ELSE 1)

\* C17: once the spawn loop has passed a selected device, a device that could
\* not be opened is disabled and has no wipe thread, and a device that was
\* opened has exactly one wipe thread.
C17_OneThreadPerOpenedDevice ==
    \A d \in DOMAIN selected_contexts :
        d < main_k =>
            LET handles == { j \in DOMAIN thread_handles : thread_handles[j] = d }
            IN IF can_open[d]
               THEN Cardinality(handles) = 1 /\ threads[d].state # "none"
               ELSE /\ selected_contexts[d].select = "Disabled"
                    /\ handles = {}
                    /\ threads[d].state = "none"

\* C17 witness: the first of two devices failed to open, the second was opened,
\* and the spawn loop is over.
C17_Witness ==
    /\ main_pc = "wait"
    /\ nwipe_selected = 2
    /\ ~can_open[1] /\ can_open[2]
    /\ selected_contexts[1].select = "Disabled"
    /\ thread_handles = << 2 >>
    /\ threads[2].state # "none"

\* C18 (as claimed): the terminate flag is set by a signal only, and no call of
\* a wipe thread fails because of what the wipe thread of another device did.
C18_Claim ==
    \A d \in DOMAIN ebadf_cause : ebadf_cause[d][1] # "thread"

\* the byte the pattern p has at device offset o
pattern_at(p, o) == p[(o % Len(p)) + 1]

\* verify_pattern: the offset it reports for a block that does not match, the
\* first i with buffer[i] != expected[i], as block * NWIPE_KNOB_BUFSIZE + i
mismatch_offset(buffer, pattern, size, blk) ==
    LET i == CHOOSE j \in 0..(size - 1) :
                 /\ buffer[j + 1] # pattern_buffer(pattern)[j + 1]
                 /\ \A l \in 0..(j - 1) : buffer[l + 1] = pattern_buffer(pattern)[l + 1]
    IN blk * NWIPE_KNOB_BUFSIZE + i

\* the worker is no longer running: run returned, or the thread panicked
WorkerEnded == pc \in {"done", "panicked"}

\* the pass started last is a verify_pattern that directly follows the
\* write_pattern of the same pattern
VerifyAfterWrite ==
    /\ Len(pass_log) >= 2
    /\ LastPass.drv = "verify_pattern"
    /\ pass_log[Len(pass_log) - 1].drv = "write_pattern"
    /\ pass_log[Len(pass_log) - 1].pattern = LastPass.pattern

\* C21, without modification: the verify pass succeeds whenever no byte was
\* changed after the write pass, no call on the handle failed and nobody
\* cancelled.
C21_Unmodified ==
    (/\ WorkerEnded /\ VerifyAfterWrite
     /\ ext_writes = 0 /\ ~io_error /\ ~TERMINATE_SIGNAL) => LastPassOk

\* C21, with a modification: the verify pass does not succeed, and the block
\* it rejects is reported at the lowest device offset that differs.
C21_Modified ==
    /\ (VerifyAfterWrite /\ ext_writes > 0) => ~LastPassOk
    /\ (pc = "io" /\ VerifyAfterWrite) =>
          LET size == calc_block_size(block, block_count, context.device_size)
              buffer == device_read(device, file_pos, size)
              differing == { o \in 0..(context.device_size - 1) :
                               device[o + 1] # pattern_at(cur.pattern, o) }
          IN ~block_verifies(buffer, size) =>
                /\ differing # {}
                /\ \A o \in differing :
                      mismatch_offset(buffer, cur.pattern, size, block) <= o
                /\ mismatch_offset(buffer, cur.pattern, size, block) \in differing

\* C21 (as claimed): write_pattern(p) followed by verify_pattern(p) succeeds
\* if and only if no byte of the device was modified in between, and a
\* modification is reported at the lowest differing offset.
C21_Claim == C21_Unmodified /\ C21_Modified

\* C22 (as claimed): a generator that is made to run from the seed S, filled,
\* made to run from S again and filled again produces the same bytes both
\* times.
C22_Claim ==
    unit_pc = "done" => unit_out.fill_1 = unit_out.fill_2

\* C27 (as claimed): a fill of a bytes followed by a fill of b bytes yields
\* the same a + b bytes as one fill of a + b bytes from the same state.
C27_Claim ==
    unit_pc = "done" => unit_out.first \o unit_out.second = unit_out.whole

\* the passes started so far that are recorded as the final blanking pass
FinalBlankPasses == { i \in 1..Len(pass_log) : pass_log[i].pass_type = "FinalBlank" }

\* C23, the order of the passes: a final blanking pass is a write of pattern 00
\* started by ops2 after its rounds, at most once, and no pass starts after it.
C23_Schedule ==
    \A i \in FinalBlankPasses :
        /\ key = "ops2"
        /\ pass_log[i].drv = "write_pattern" /\ pass_log[i].pattern = << 0 >>
        /\ i = Len(pass_log)
        /\ i > 1 /\ pass_log[i - 1].pass_type # "FinalBlank"
        /\ FinalBlankPasses = {i}

\* C23 (as claimed): an ops2 wipe that nothing disturbs ends with exactly one
\* final blanking pass as its last pass, and with the device all 00.
C23_Claim ==
    /\ C23_Schedule
    /\ (/\ WorkerEnded /\ key = "ops2" /\ init_prng_ok(context.prng)
        /\ ~io_error /\ ~TERMINATE_SIGNAL /\ ext_writes = 0) =>
          /\ Cardinality(FinalBlankPasses) = 1
          /\ LastPass.pass_type = "FinalBlank"
          /\ \A o \in DOMAIN device : device[o] = 0

\* the 27 fixed patterns of the Gutmann method in the order of the catalog:
\* 55 AA 924924 492492 249249 00 11 22 ... FF 924924 492492 249249 6DB6DB
\* B6DB6D DB6DB6
C24_Catalog ==
    << <<85, 85, 85>>, <<170, 170, 170>>,
       <<146, 73, 36>>, <<73, 36, 146>>, <<36, 146, 73>> >>
    \o [n \in 1..16 |-> << 17 * (n - 1), 17 * (n - 1), 17 * (n - 1) >>]
    \o << <<146, 73, 36>>, <<73, 36, 146>>, <<36, 146, 73>>,
          <<109, 182, 219>>, <<182, 219, 109>>, <<219, 109, 182>> >>

\* what the i-th pass of a Gutmann wipe without verification is to be
C24_Expected(i) ==
    IF i <= 4 \/ i >= 32
    THEN [drv |-> "write_random", pattern |-> << >>, pass_type |-> "Write"]
    ELSE [drv |-> "write_pattern", pattern |-> C24_Catalog[i - 4], pass_type |-> "Write"]

\* C24: gutmann with rounds = 1 and verify = false runs 4 PRNG passes, the 27
\* catalog patterns in order and 4 PRNG passes, with pass_working counting
\* 1..35; a run that nothing disturbs ends after exactly these 35 passes.
C24_GutmannOrder ==
    (entry = "gui" /\ M = "gutmann" /\ R = 1 /\ ~options.verify) =>
        /\ Len(pass_log) <= 35
        /\ \A i \in 1..Len(pass_log) : pass_log[i] = C24_Expected(i)
        /\ pc \in {"loop", "io", "fsync"} => context.pass_working = Len(pass_log)
        /\ (WorkerEnded /\ ~io_error /\ ~TERMINATE_SIGNAL) =>
              /\ CleanFinish
              /\ Len(pass_log) = 35
              /\ passes_done = 35
              /\ context.pass_working = 35

\* C24 witness: a Gutmann wipe of a device of one and a half buffers has
\* returned 0 after its 35th pass.
C24_Witness ==
    /\ entry = "gui" /\ M = "gutmann" /\ R = 1 /\ ~options.verify
    /\ CleanFinish
    /\ context.device_size = NWIPE_KNOB_BUFSIZE + 1
    /\ Len(pass_log) = 35
    /\ context.pass_working = 35

\* C25 (as claimed): a reader that sees wipe_status = completed in the context
\* it can read sees the wipe finished, with the final result and an end time.
C25_Claim ==
    shared.wipe_status = 0 =>
        /\ WorkerEnded
        /\ shared.result = result
        /\ shared.end_time >= EpochStart

\* C26, for one worker on its device: the first write of a pass is at offset
\* 0, every later write starts where the one before it ended, and a write
\* pass hands over to the next pass, or to the caller, only in the step in
\* which its fsync returns.
C26_Engine ==
    [][ /\ (pass_calls' = pass_calls + 1 /\ is_write(cur.drv)) =>
              /\ last_write'.off = (IF pass_calls = 0 THEN 0
                                    ELSE last_write.off + last_write.len)
              /\ last_write'.off = file_pos
        /\ (passes_done' = passes_done + 1 /\ is_write(cur.drv)) =>
              /\ pc = "fsync"
              /\ context.sync_status /\ ~context'.sync_status
        /\ (Len(pass_log') > Len(pass_log)) =>
              pc = "pass" /\ (pass_log = << >> \/ LastPassOk)
      ]_vars

\* thread d issues a seek or a write that succeeds
thread_lands(d) ==
    /\ threads[d].state = "running"
    /\ threads[d].op \in {"seek", "rw"}
    /\ threads'[d] = thread_advance(threads[d])

\* C26 (as claimed): between the seek of a pass and its fsync, nothing but
\* the writes of that pass reaches the device: no seek and no write of
\* another wipe thread lands on it.
C26_Claim ==
    [][ \A d \in DOMAIN threads :
            thread_lands(d) =>
                ~ \E e \in DOMAIN threads \ {d} :
                      /\ fd_table[threads[d].fd] = e
                      /\ threads[e].state = "running"
                      /\ threads[e].op \in {"rw", "sync"}
      ]_vars

\* a percentage stands at 100
Full(percent) == percent.num = percent.den
\* a percentage lies in [0, 100]
InRange(percent) == 0 <= percent.num /\ percent.num <= percent.den /\ percent.den > 0

\* pass i of the method's schedule is the last pass of its round
LastOfRound(i) ==
    i = Len(passes) \/ passes[i + 1].round_working # passes[i].round_working

\* C28, the range: round_percent lies in [0, 100] in the worker's context and
\* in the context a reader sees.
C28_Range == InRange(context.round_percent) /\ InRange(shared.round_percent)

\* C28 (as claimed): round_percent lies in [0, 100] and stands at 100 only when
\* the last pass of the round has finished, and never for a wipe that failed
\* or was cancelled.
C28_Claim ==
    /\ C28_Range
    /\ (pc \in {"loop", "io", "fsync"} /\ Full(context.round_percent)) =>
          LastOfRound(pass_idx) /\ block = block_count
    /\ Full(shared.round_percent) => pc = "done" /\ result = 0

\* C29 (as claimed): after each write or read pass_percent is
\* 100 * offset / device_size, and on a device of size 0 a pass issues no call
\* on the handle and a finished pass shows pass_percent at 100.
C29_Claim ==
    /\ (pc = "loop" /\ block > 0) =>
          context.pass_percent.num * context.device_size
             = file_pos * context.pass_percent.den
    /\ context.device_size = 0 =>
          /\ pc # "fsync"
          /\ passes_done > 0 => Full(context.pass_percent)

\* C30: from one step of the worker to the next bytes_written, bytes_verified
\* and bytes_total do not decrease, except that the step that starts a pass
\* may set them to 0.
C30_Monotonic ==
    [][ \/ /\ context'.bytes_written >= context.bytes_written
           /\ context'.bytes_verified >= context.bytes_verified
           /\ context'.bytes_total >= context.bytes_total
        \/ /\ pc = "pass"
           /\ context'.bytes_written \in {0, context.bytes_written}
           /\ context'.bytes_verified \in {0, context.bytes_verified}
           /\ context'.bytes_total \in {0, context.bytes_total}
      ]_vars

\* C30 witness: the second, truncated block of a verify pass has been counted
\* after a write pass of two blocks.
C30_Witness ==
    /\ pc = "loop" /\ is_verify(cur.drv)
    /\ block = 2
    /\ context.device_size = NWIPE_KNOB_BUFSIZE + 1
    /\ context.bytes_verified = context.device_size
    /\ context.bytes_written >= context.device_size
    /\ context.bytes_total = context.bytes_written + context.bytes_verified

\* C31 (as claimed): once the method function has set its counts,
\* bytes_written never exceeds device_size * round_count * (write passes per
\* round), for every method.
C31_Claim ==
    key \in MethodNames /\ pass_idx > 0 =>
       context.bytes_written
          <= context.device_size * context.round_count * WritePassesPerRound(key)

\* the worker is inside a pass driver
InPass == pc \in {"loop", "io", "fsync"}

\* C32 (as claimed): while a pass is running, 1 <= round_working <=
\* round_count and 1 <= pass_working <= pass_count in the worker's context.
C32_Claim ==
    InPass =>
       /\ 1 <= context.round_working
       /\ context.round_working <= context.round_count
       /\ 1 <= context.pass_working
       /\ context.pass_working <= context.pass_count

\* C33 (as claimed): sync_status is true exactly while the worker is at the
\* fsync of a write pass (false before it, after it whether it succeeded or
\* failed, and after the worker has finished), and a wipe with a failed call
\* on the device ends with a negative result.
C33_Claim ==
    /\ context.sync_status <=> pc = "fsync"
    /\ (pc = "done" /\ io_error) => result < 0

Max(a, b) == IF a > b THEN a ELSE b

\* the total the claim subtracts from
C34_Expected ==
    context.device_size * context.round_count * WritePassesPerRound(key)
       * (IF context.verify THEN 2 ELSE 1)
C34_Throughput == context.bytes_total \div Max(1, now - context.start_time)

\* C34 (as claimed): the subtraction of update_eta_throughput never underflows
\* (no panic, no negative eta, bytes_total within the expected total), and
\* after every progress update eta = (expected - bytes_total) / max(1,
\* throughput) with throughput = bytes_total / max(1, now - start_time).
C34_Claim ==
    /\ pc # "panicked"
    /\ context.eta >= 0
    /\ (key \in MethodNames /\ pass_idx > 0) => context.bytes_total <= C34_Expected
    /\ (pc = "loop" /\ block > 0) =>
          /\ context.throughput = C34_Throughput
          /\ context.eta = (C34_Expected - context.bytes_total) \div Max(1, C34_Throughput)

\* the select status, when the threads are started, of the device that the
\* selected context d was cloned from
SelectAtStart(d) == unit_out.at_start[unit_st.origin[d]]

\* a worker exists, and a descriptor is open, only for devices that were
\* selected when wiping started
C35_SelectedOnly ==
    /\ \A d \in DOMAIN threads : threads[d].state # "none" => SelectAtStart(d) = "True"
    /\ \A n \in DOMAIN fd_table : fd_table[n] # 0 => SelectAtStart(fd_table[n]) = "True"

wiped == unit_out.wiped

\* C36 (as claimed): a context of the device list shows wipe_status 0
\* (completed) only after a wipe thread has run on its device, so no selected
\* device that was never wiped is shown as completed with result 0.
C36_Claim ==
    \A d \in DOMAIN devices : devices[d].wipe_status = 0 => d \in wiped

\* C37: while the UI thread is outside stop_wiping both flags are clear, so a
\* wipe that is started is not cancelled by a flag left behind (a thread is
\* cancelled only while stop_wiping waits in its joins); inside stop_wiping
\* the flags are set; whenever wiping_in_progress is false, in particular
\* once stop_wiping has returned, no wipe thread exists that was not joined;
\* and there is never more than one handle for a device.
C37_StopWiping ==
    /\ unit_pc = "ui" => ~TERMINATE_SIGNAL /\ ~USER_ABORT
    /\ unit_pc = "stop_wiping" => TERMINATE_SIGNAL /\ USER_ABORT /\ wiping_in_progress
    /\ ~wiping_in_progress => \A d \in DOMAIN workers : workers[d].state = "none"
    /\ \A d \in DOMAIN workers :
          /\ workers[d].cancelled => unit_pc = "stop_wiping"
          /\ workers[d].state # "none" => \E i \in DOMAIN wipe_threads : wipe_threads[i] = d
    /\ \A i, j \in DOMAIN wipe_threads : wipe_threads[i] = wipe_threads[j] => i = j

\* C37 witness: stop_wiping has returned after its joins, a wipe was started
\* again, and its thread is past its first block.
C37_Witness ==
    /\ unit_st.stopped
    /\ unit_pc = "ui"
    /\ wiping_in_progress
    /\ \E d \in DOMAIN workers :
          workers[d].state = "running" /\ workers[d].left = MaxBlocks - 1

\* a pass was entered and its driver has left it without returning Ok
PassNotOk == Len(pass_log) > passes_done /\ ~InPass

\* C38: once a driver has left a pass without Ok, the worker has ended: the
\* method function has returned a non-zero code (or the thread has panicked),
\* and no pass after that one was entered.
C38_FailStop ==
    PassNotOk =>
       /\ pc \in {"done", "panicked"}
       /\ pc = "done" => result # 0
       /\ pass_idx = Len(pass_log)

\* C38 witness: ops2 has returned -1 from a failure in a later pass, with
\* passes of its schedule (the final blank among them) left to run.
C38_Witness ==
    /\ pc = "done" /\ result = -1 /\ key = "ops2"
    /\ passes_done >= 1
    /\ Len(pass_log) = passes_done + 1
    /\ pass_idx < Len(passes)
    /\ \A i \in DOMAIN pass_log : pass_log[i].pass_type # "FinalBlank"

\* C39: a step of the worker inside the block loop of a verify pass leaves
\* the device, bytes_written and the record of the writes alone, and advances
\* bytes_verified and bytes_total by the same amount: the bytes read when the
\* block passed the comparison, else nothing.
C39_VerifyFrame ==
    [][ (pc \in {"loop", "io"} /\ is_verify(cur.drv)) =>
          /\ device' = device
          /\ last_write' = last_write
          /\ handle_bytes' = handle_bytes
          /\ context'.bytes_written = context.bytes_written
          /\ context'.bytes_verified - context.bytes_verified
                = context'.bytes_total - context.bytes_total
          /\ context'.bytes_verified - context.bytes_verified
                = (IF pc = "io" /\ pc' \in {"loop", "panicked"}
                   THEN file_pos' - file_pos ELSE 0)
      ]_vars

\* C39 witness: verify_random is past its second block on a device of more
\* than one buffer, which still holds what the write pass left.
C39_Witness ==
    /\ pc = "loop" /\ cur.drv = "verify_random"
    /\ block = 2
    /\ context.bytes_verified = context.device_size
    /\ context.bytes_written = context.device_size
    /\ device = stream
    /\ ext_writes = 0

====
